---- MODULE Spec2Model ----
(***************************************************************************)
(* Model of the captcha OCR service of backend/enhanced_ocr_service.py:    *)
(* the tile batch orchestrator process_captcha_tiles, the per-tile         *)
(* pipeline enhanced_ocr_process, the consolidator consolidate_results and *)
(* its two matching rules _text_matches_target and _fuzzy_match.           *)
(*                                                                         *)
(* Conventions.  A Python str of digits is a sequence of digits.  A value  *)
(* that may be None is an option: <<>> is None and <<v>> is the value v.   *)
(* A detection is a pair <<text, confidence>>, the confidence in percent.  *)
(* List positions are 0-based as in Python: position i of a list l is      *)
(* l[i + 1].  The image preprocessor and the recognizers are external      *)
(* engines: what they pool for one decodable tile is part of the tile.     *)
(* The logging collaborator (self.log: db.system_logs.insert_one and the   *)
(* log callback) is taken not to raise, and every tile is a dict.          *)
(***************************************************************************)
EXTENDS Integers, Sequences, FiniteSets, TLC

VARIABLES
    tiles,             \* process_captcha_tiles: argument tiles (option of a list)
    target,            \* process_captcha_tiles: argument target (option of a str)
    pc,                \* position in process_captcha_tiles
    idx,               \* loop variable of "for idx, tile in enumerate(tiles)"
    matching_indices,  \* local list matching_indices
    processed_count,   \* local counter processed_count
    result,            \* the dict returned by process_captcha_tiles
    fallback_fired,    \* history: the branch of lines 402-410 was taken
    arg_text,          \* matcher call: argument text
    arg_target,        \* matcher call: argument target (option of a str)
    fpc,               \* position in the sequence of matcher calls
    ret_exact,         \* outcome of _text_matches_target(arg_text, arg_target)
    ret_fuzzy,         \* outcome of _fuzzy_match(arg_text, arg_target)
    ret_matches,       \* outcome of consolidate_results([(arg_text, c)], arg_target)
    visited,           \* positions of tiles already processed, when the order is free
    ocr_pc,            \* position in enhanced_ocr_process
    ocr_target,        \* enhanced_ocr_process: argument target
    tesseract_available, \* module flag TESSERACT_AVAILABLE
    easyocr_available, \* module flag EASYOCR_AVAILABLE
    easyocr_reader,    \* self.easyocr_reader is not None
    variants,          \* len(processed_images)
    variant,           \* loop variable i of "for i, proc_img in enumerate(...)"
    config,            \* position of "for config in configs"
    ocr_all_results,   \* enhanced_ocr_process: local list all_results
    sources,           \* history: the recognizer that gave each entry of all_results
    call_raised,       \* history: an engine call raised in the last recognizer call
    call_failed,       \* history: no engine call of the last recognizer call returned
    call_added,        \* history: number of detections the last recognizer call returned
    any_raised,        \* history: some engine call raised for this tile
    calls,             \* history: number of recognizer calls made for this tile
    ocr_result,        \* the dict returned by enhanced_ocr_process
    dec_payload,       \* decoding: the base64_image text
    dec_pc,            \* decoding: position
    dec_ret,           \* decoding: outcome of lines 314-319
    cons_results,      \* consolidate_results: argument all_results
    cons_target,       \* consolidate_results: argument target
    cons_pc,           \* consolidate_results: position
    cons_ret,          \* consolidate_results: returned list
    rec_pc,            \* one recognizer call: position
    rec_engine,        \* one recognizer call: "tesseract" or "easyocr"
    rec_available,     \* TESSERACT_AVAILABLE, or self.easyocr_reader is set
    rec_config,        \* position of "for config in configs"
    rec_results,       \* local list results
    rec_low,           \* history: the engine reported a number under the threshold
    pre_throwing,      \* preprocess_image: the transforms that raise when run
    pre_pc,            \* preprocess_image: position
    pre_ret,           \* preprocess_image: outcome
    fc_pc,             \* enhanced_full_check: position
    fc_events,         \* history: steps started and slots written, in order
    fc_slots,          \* enhanced_full_check: local slots
    fc_failed,         \* history: the steps that failed
    fc_ret,            \* enhanced_full_check: returned tuple
    cap_images,        \* enhanced_captcha_solver: unique_images
    cap_tiles,         \* enhanced_captcha_solver: tile_data
    cap_status,        \* response.status_code
    cap_body,          \* response.json()
    cap_pos,           \* position of a loop of enhanced_captcha_solver
    cap_clicked,       \* history: positions in unique_images clicked
    cap_pc,            \* enhanced_captcha_solver: position
    cap_ret,           \* enhanced_captcha_solver: returned value
    cl_page,           \* self.page
    cl_context,        \* self.context
    cl_browser,        \* self.browser
    cl_raising,        \* cleanup: the handles whose close() raises
    cl_pc,             \* cleanup: position
    login_pc,          \* enhanced_step1_login: position
    login_attempt,     \* loop variable attempt
    login_events,      \* history: what step 1 has done, in order
    login_ret,         \* enhanced_step1_login: returned value
    alt_results,       \* consolidate_results: all_results, rearranged
    alt_target,        \* consolidate_results: target
    alt_first,         \* the verdict on all_results before any rearrangement
    alt_ret,           \* consolidate_results(alt_results, alt_target)
    alt_pc             \* rearrangement: position

ocr_vars == <<ocr_pc, ocr_target, tesseract_available, easyocr_available,
              easyocr_reader, variants, variant, config, ocr_all_results,
              sources, call_raised, call_failed, call_added, any_raised,
              calls, ocr_result>>

dec_vars == <<dec_payload, dec_pc, dec_ret>>

cons_vars == <<cons_results, cons_target, cons_pc, cons_ret>>

\* the state beyond one batch and one sequence of matcher calls
rec_vars == <<rec_pc, rec_engine, rec_available, rec_config, rec_results,
              rec_low>>

pre_vars == <<pre_throwing, pre_pc, pre_ret>>

fc_vars == <<fc_pc, fc_events, fc_slots, fc_failed, fc_ret>>

cap_vars == <<cap_images, cap_tiles, cap_status, cap_body, cap_pos,
              cap_clicked, cap_pc, cap_ret>>

cl_vars == <<cl_page, cl_context, cl_browser, cl_raising, cl_pc>>

login_vars == <<login_pc, login_attempt, login_events, login_ret>>

alt_vars == <<alt_results, alt_target, alt_first, alt_ret, alt_pc>>

\* the state of the recognizer, preprocessor and automation specifications
auto_vars == <<rec_vars, pre_vars, fc_vars, cap_vars, cl_vars, login_vars,
               alt_vars>>

ext_vars == <<visited, ocr_vars, dec_vars, cons_vars, auto_vars>>

vars == <<tiles, target, pc, idx, matching_indices, processed_count, result,
          fallback_fired, arg_text, arg_target, fpc, ret_exact, ret_fuzzy,
          ret_matches, ext_vars>>

batch_vars == <<tiles, target, pc, idx, matching_indices, processed_count,
                result, fallback_fired>>

matcher_vars == <<arg_text, arg_target, fpc, ret_exact, ret_fuzzy, ret_matches>>

----------------------------------------------------------------------------
\* Bounds of the model.

\* longest tile list submitted to process_captcha_tiles
MaxTiles == 4

\* longest text and target handed to the matching rules
MaxStrLen == 5

\* digits that occur in the strings handed to the matching rules
Alphabet == {1, 2}

----------------------------------------------------------------------------
\* Python values.

None == <<>>

Some(v) == <<v>>

IsNone(o) == Len(o) = 0

Val(o) == o[1]

Min(a, b) == IF a <= b THEN a ELSE b

\* s[::-1]
Reverse(s) == [i \in 1..Len(s) |-> s[Len(s) + 1 - i]]

\* "a in b" for two str
IsSubstring(a, b) ==
    \E k \in 0..(Len(b) - Len(a)) :
        \A i \in 1..Len(a) : b[k + i] = a[i]

\* all str over the alphabet of length lo..hi
StringsOver(alphabet, lo, hi) ==
    UNION {[1..n -> alphabet] : n \in lo..hi}

----------------------------------------------------------------------------
\* Configuration set in __init__, in percent.

\* self.similarity_threshold = 0.8
similarity_threshold == 80

----------------------------------------------------------------------------
\* The matching rules.

\* _text_matches_target(text, target): "True", "False", or "TypeError" when
\* target is None (text == None is False, then "None in text" raises).
text_matches_target_no_reverse(text, tgt) ==
    IF IsNone(tgt) THEN "TypeError"
    ELSE IF text = Val(tgt) THEN "True"
    ELSE IF IsSubstring(Val(tgt), text) \/ IsSubstring(text, Val(tgt))
         THEN "True"
    ELSE "False"

text_matches_target(text, tgt) ==
    IF IsNone(tgt) THEN "TypeError"
    ELSE IF text = Val(tgt) THEN "True"
    ELSE IF IsSubstring(Val(tgt), text) \/ IsSubstring(text, Val(tgt))
         THEN "True"
    ELSE IF Reverse(text) = Val(tgt) THEN "True"
    ELSE "False"

\* sum(c1 != c2 for c1, c2 in zip(text, target))
RECURSIVE differences(_, _)
differences(text, t) ==
    IF text = <<>> \/ t = <<>> THEN 0
    ELSE (IF Head(text) # Head(t) THEN 1 ELSE 0)
         + differences(Tail(text), Tail(t))

\* _fuzzy_match(text, target).  Every exception is swallowed into False:
\* len(None), and the division by len(target) = 0.  The comparison
\* 1 - differences / len(target) >= 0.8 is taken over the rationals, which
\* agrees with the float comparison for every length up to 200.
fuzzy_match_strict(text, tgt) ==
    IF IsNone(tgt) THEN FALSE
    ELSE IF Len(text) # Len(Val(tgt)) THEN FALSE
    ELSE IF Len(Val(tgt)) = 0 THEN FALSE
    ELSE 100 * (Len(Val(tgt)) - differences(text, Val(tgt)))
            > similarity_threshold * Len(Val(tgt))

fuzzy_match(text, tgt) ==
    IF IsNone(tgt) THEN FALSE
    ELSE IF Len(text) # Len(Val(tgt)) THEN FALSE
    ELSE IF Len(Val(tgt)) = 0 THEN FALSE
    ELSE 100 * (Len(Val(tgt)) - differences(text, Val(tgt)))
            >= similarity_threshold * Len(Val(tgt))

----------------------------------------------------------------------------
\* consolidate_results.

\* text_groups: one entry per distinct text, in order of first occurrence,
\* with the sum and the number of its confidences.
RECURSIVE text_groups(_, _)
text_groups(all_results, groups) ==
    IF all_results = <<>> THEN groups
    ELSE LET text == Head(all_results)[1]
             confidence == Head(all_results)[2]
             at == {j \in 1..Len(groups) : groups[j].text = text}
         IN  text_groups(
                 Tail(all_results),
                 IF at = {}
                 THEN Append(groups, [text |-> text, sum |-> confidence, n |-> 1])
                 ELSE [j \in 1..Len(groups) |->
                          IF j \in at
                          THEN [text |-> text,
                                sum |-> groups[j].sum + confidence,
                                n |-> groups[j].n + 1]
                          ELSE groups[j]])

\* avg_confidence of a is greater than that of b (sum / len, as rationals)
AvgGreater(a, b) == a.sum * b.n > b.sum * a.n

\* x placed into the sorted list s in front of the entries that are not
\* greater than it
RECURSIVE InsertByConfidence(_, _)
InsertByConfidence(x, s) ==
    IF s = <<>> THEN <<x>>
    ELSE IF AvgGreater(Head(s), x)
         THEN <<Head(s)>> \o InsertByConfidence(x, Tail(s))
         ELSE <<x>> \o s

\* final_results.sort(key=lambda x: x[1], reverse=True): stable, descending
SortByConfidenceUnsorted(s) == s

RECURSIVE SortByConfidence(_)
SortByConfidence(s) ==
    IF s = <<>> THEN <<>>
    ELSE InsertByConfidence(Head(s), SortByConfidence(Tail(s)))

\* the texts of the entries of s, in order
RECURSIVE TextsOf(_)
TextsOf(s) == IF s = <<>> THEN <<>> ELSE <<Head(s).text>> \o TextsOf(Tail(s))

\* consolidate_results(all_results, target): the list of matches, or raised
\* when _text_matches_target raises on the first grouped text.
consolidate_results_top_only(all_results, tgt) ==
    IF all_results = <<>> THEN [raised |-> FALSE, matches |-> <<>>]
    ELSE LET final_results == SortByConfidence(text_groups(all_results, <<>>))
             top == final_results[1]
         IN  IF text_matches_target(top.text, tgt) = "TypeError"
             THEN [raised |-> TRUE, matches |-> <<>>]
             ELSE IF \/ text_matches_target(top.text, tgt) = "True"
                     \/ fuzzy_match(top.text, tgt)
                  THEN [raised |-> FALSE, matches |-> <<top.text>>]
                  ELSE [raised |-> FALSE, matches |-> <<>>]

consolidate_results_both_passes(all_results, tgt) ==
    IF all_results = <<>> THEN [raised |-> FALSE, matches |-> <<>>]
    ELSE LET final_results == SortByConfidence(text_groups(all_results, <<>>))
             exact(e) == text_matches_target(e.text, tgt) = "True"
             fuzzy(e) == fuzzy_match(e.text, tgt)
         IN  IF text_matches_target(final_results[1].text, tgt) = "TypeError"
             THEN [raised |-> TRUE, matches |-> <<>>]
             ELSE [raised |-> FALSE,
                   matches |-> TextsOf(SelectSeq(final_results, exact))
                               \o TextsOf(SelectSeq(final_results, fuzzy))]

consolidate_results(all_results, tgt) ==
    IF all_results = <<>> THEN [raised |-> FALSE, matches |-> <<>>]
    ELSE LET final_results == SortByConfidence(text_groups(all_results, <<>>))
             exact(e) == text_matches_target(e.text, tgt) = "True"
             fuzzy(e) == fuzzy_match(e.text, tgt)
             first == SelectSeq(final_results, exact)
         IN  IF text_matches_target(final_results[1].text, tgt) = "TypeError"
             THEN [raised |-> TRUE, matches |-> <<>>]
             ELSE IF first # <<>>
                  THEN [raised |-> FALSE, matches |-> TextsOf(first)]
                  ELSE [raised |-> FALSE,
                        matches |-> TextsOf(SelectSeq(final_results, fuzzy))]

----------------------------------------------------------------------------
\* enhanced_ocr_process.

\* A tile's base64Image: kind "none" is a missing, None or empty value,
\* "corrupt" a payload that base64.b64decode or Image.open rejects, "image"
\* a decodable image, with the detections the recognizers pool for it over
\* all its variants (all_results).
Payload(kind, detections) == [kind |-> kind, detections |-> detections]

\* enhanced_ocr_process(base64_image, target): the dict returned
enhanced_ocr_process(base64_image, tgt) ==
    IF base64_image.kind = "corrupt"
    THEN [success |-> FALSE, error |-> "Image decode failed"]
    ELSE LET all_results == base64_image.detections
             c == consolidate_results(all_results, tgt)
         IN  IF c.raised
             THEN [success |-> FALSE, error |-> "TypeError"]
             ELSE [success |-> Len(c.matches) > 0,
                   target |-> tgt,
                   matches |-> c.matches,
                   confidence |-> IF Len(c.matches) > 0 THEN "high" ELSE "low",
                   total_detections |-> Len(all_results),
                   processing_methods |->
                       <<"tesseract", "easyocr", "pattern_matching">>]

----------------------------------------------------------------------------
\* process_captcha_tiles.

\* a tile dict
Tile(base64_image) == [base64Image |-> base64_image]

\* "if not base64_image: continue" does not fire
HasImageData(tile) == tile.base64Image.kind # "none"

\* result.get('success') and result.get('matches')
TileMatchesOnSuccessKey(r) == "success" \in DOMAIN r

TileMatches(r) ==
    /\ "success" \in DOMAIN r /\ r.success
    /\ "matches" \in DOMAIN r /\ Len(r.matches) > 0

\* matching_indices.append(idx)
AppendIndexOneBased(indices, i) == Append(indices, i + 1)

AppendIndex(indices, i) == Append(indices, i)

\* processed_count after the tile at hand went through enhanced_ocr_process
CountProcessedOnMatch(count, r) ==
    IF TileMatches(r) THEN count + 1 ELSE count

CountProcessed(count, r) == count + 1

\* "if not matching_indices and processed_count > 0"
NeedsFallbackAfterTwo(indices, count) == Len(indices) = 0 /\ count > 1

NeedsFallback(indices, count) == Len(indices) = 0 /\ count > 0

\* the 3 of min(3, len(tiles))
max_fallback == 3

\* num_fallback = min(3, len(tiles))
num_fallback(n) == Min(max_fallback, n)

\* random.sample(range(n), k): every list of k distinct elements of 0..n-1
Samples(n, k) ==
    {s \in [1..k -> 0..(n - 1)] :
        \A i, j \in 1..k : i # j => s[i] # s[j]}

\* the dict built at lines 412-419
BuildResultSuccessByTotal(tgt, indices, count, n) ==
    [target |-> tgt,
     matching_indices |-> indices,
     processed_tiles |-> count,
     total_tiles |-> n,
     success |-> n > 0,
     method |-> "enhanced_ocr"]

BuildResult(tgt, indices, count, n) ==
    [target |-> tgt,
     matching_indices |-> indices,
     processed_tiles |-> count,
     total_tiles |-> n,
     success |-> Len(indices) > 0,
     method |-> "enhanced_ocr"]

\* the dict built in the exception handler, lines 428-434
ErrorResultWithoutTarget(tgt) ==
    [matching_indices |-> <<>>,
     processed_tiles |-> 0,
     success |-> FALSE,
     error |-> "TypeError"]

ErrorResult(tgt) ==
    [target |-> tgt,
     matching_indices |-> <<>>,
     processed_tiles |-> 0,
     success |-> FALSE,
     error |-> "TypeError"]

----------------------------------------------------------------------------
\* The requests the batch specification draws from.

Text47 == <<4, 7>>
Text74 == <<7, 4>>
Text12 == <<1, 2>>

\* what the recognizers pool for one decodable tile
PooledOutputs ==
    { <<>>,
      << <<Text47, 80>> >>,
      << <<Text74, 80>> >>,
      << <<Text12, 80>> >>,
      << <<Text12, 90>>, <<Text47, 60>> >> }

TileOptions ==
    {Tile(Payload("none", <<>>)), Tile(Payload("corrupt", <<>>))}
    \cup {Tile(Payload("image", d)) : d \in PooledOutputs}

TileLists == UNION {[1..n -> TileOptions] : n \in 0..MaxTiles}

BatchTargets == {None, Some(<<>>), Some(Text47)}

----------------------------------------------------------------------------
\* The matcher calls are idle while a batch runs, and the other way round.

MatcherIdle ==
    /\ arg_text = <<>> /\ arg_target = None /\ fpc = "idle"
    /\ ret_exact = "" /\ ret_fuzzy = FALSE /\ ret_matches = <<>>

BatchIdle ==
    /\ tiles = None /\ target = None /\ pc = "idle" /\ idx = 0
    /\ matching_indices = <<>> /\ processed_count = 0
    /\ result = None /\ fallback_fired = FALSE

OcrIdle ==
    /\ ocr_pc = "idle" /\ ocr_target = None
    /\ tesseract_available = FALSE /\ easyocr_available = FALSE
    /\ easyocr_reader = FALSE
    /\ variants = 0 /\ variant = 0 /\ config = 0
    /\ ocr_all_results = <<>> /\ sources = <<>>
    /\ call_raised = FALSE /\ call_failed = FALSE /\ call_added = 0
    /\ any_raised = FALSE
    /\ calls = 0 /\ ocr_result = None

DecodeIdle == dec_payload = <<>> /\ dec_pc = "idle" /\ dec_ret = ""

ConsolidateIdle ==
    /\ cons_results = <<>> /\ cons_target = None
    /\ cons_pc = "idle" /\ cons_ret = <<>>

RecognizerIdle ==
    /\ rec_pc = "idle" /\ rec_engine = "" /\ rec_available = FALSE
    /\ rec_config = 0 /\ rec_results = <<>> /\ rec_low = FALSE

PreprocessIdle == pre_throwing = {} /\ pre_pc = "idle" /\ pre_ret = None

FullCheckIdle ==
    /\ fc_pc = "idle" /\ fc_events = <<>> /\ fc_slots = <<>>
    /\ fc_failed = {} /\ fc_ret = None

CaptchaIdle ==
    /\ cap_images = <<>> /\ cap_tiles = <<>> /\ cap_status = 0
    /\ cap_body = None /\ cap_pos = 0 /\ cap_clicked = <<>>
    /\ cap_pc = "idle" /\ cap_ret = None

CleanupIdle ==
    /\ cl_page = None /\ cl_context = None /\ cl_browser = None
    /\ cl_raising = {} /\ cl_pc = "idle"

LoginIdle ==
    /\ login_pc = "idle" /\ login_attempt = 0 /\ login_events = <<>>
    /\ login_ret = None

RearrangeIdle ==
    /\ alt_results = <<>> /\ alt_target = None /\ alt_first = FALSE
    /\ alt_ret = <<>> /\ alt_pc = "idle"

AutoIdle ==
    /\ RecognizerIdle /\ PreprocessIdle /\ FullCheckIdle /\ CaptchaIdle
    /\ CleanupIdle /\ LoginIdle /\ RearrangeIdle

ExtIdle ==
    visited = {} /\ OcrIdle /\ DecodeIdle /\ ConsolidateIdle /\ AutoIdle

\* process_captcha_tiles has been called with some tiles and some target
Init ==
    /\ tiles \in {None} \cup {Some(l) : l \in TileLists}
    /\ target \in BatchTargets
    /\ pc = "start"
    /\ idx = 0
    /\ matching_indices = <<>>
    /\ processed_count = 0
    /\ result = None
    /\ fallback_fired = FALSE
    /\ MatcherIdle
    /\ ExtIdle

\* lines 377-381: the first log line evaluates len(tiles), which raises
\* for tiles = None; otherwise the locals are initialised.
Begin ==
    /\ pc = "start"
    /\ pc' = IF IsNone(tiles) THEN "except" ELSE "loop"
    /\ matching_indices' = <<>>
    /\ processed_count' = 0
    /\ idx' = 0
    /\ UNCHANGED <<tiles, target, result, fallback_fired>>
    /\ UNCHANGED matcher_vars
    /\ UNCHANGED ext_vars

\* lines 385-387: a tile without image data is skipped
SkipTile ==
    /\ pc = "loop"
    /\ idx < Len(Val(tiles))
    /\ ~HasImageData(Val(tiles)[idx + 1])
    /\ idx' = idx + 1
    /\ UNCHANGED <<tiles, target, pc, matching_indices, processed_count,
                   result, fallback_fired>>
    /\ UNCHANGED matcher_vars
    /\ UNCHANGED ext_vars

\* lines 389-395: a tile with image data goes through enhanced_ocr_process
ProcessTile ==
    /\ pc = "loop"
    /\ idx < Len(Val(tiles))
    /\ HasImageData(Val(tiles)[idx + 1])
    /\ LET r == enhanced_ocr_process(Val(tiles)[idx + 1].base64Image, target)
       IN  /\ processed_count' = CountProcessed(processed_count, r)
           /\ matching_indices' =
                  IF TileMatches(r)
                  THEN AppendIndex(matching_indices, idx)
                  ELSE matching_indices
    /\ idx' = idx + 1
    /\ UNCHANGED <<tiles, target, pc, result, fallback_fired>>
    /\ UNCHANGED matcher_vars
    /\ UNCHANGED ext_vars

\* lines 401-410: no match and at least one tile processed
Fallback ==
    /\ pc = "loop"
    /\ idx = Len(Val(tiles))
    /\ NeedsFallback(matching_indices, processed_count)
    /\ \E s \in Samples(Len(Val(tiles)), num_fallback(Len(Val(tiles)))) :
           matching_indices' = s
    /\ fallback_fired' = TRUE
    /\ pc' = "build"
    /\ UNCHANGED <<tiles, target, idx, processed_count, result>>
    /\ UNCHANGED matcher_vars
    /\ UNCHANGED ext_vars

\* line 402, condition false
NoFallback ==
    /\ pc = "loop"
    /\ idx = Len(Val(tiles))
    /\ ~NeedsFallback(matching_indices, processed_count)
    /\ pc' = "build"
    /\ UNCHANGED <<tiles, target, idx, matching_indices, processed_count,
                   result, fallback_fired>>
    /\ UNCHANGED matcher_vars
    /\ UNCHANGED ext_vars

\* lines 412-424
Return ==
    /\ pc = "build"
    /\ result' = BuildResult(target, matching_indices, processed_count,
                             Len(Val(tiles)))
    /\ pc' = "done"
    /\ UNCHANGED <<tiles, target, idx, matching_indices, processed_count,
                   fallback_fired>>
    /\ UNCHANGED matcher_vars
    /\ UNCHANGED ext_vars

\* lines 426-434
HandleException ==
    /\ pc = "except"
    /\ result' = ErrorResult(target)
    /\ pc' = "done"
    /\ UNCHANGED <<tiles, target, idx, matching_indices, processed_count,
                   fallback_fired>>
    /\ UNCHANGED matcher_vars
    /\ UNCHANGED ext_vars

Next ==
    \/ Begin
    \/ SkipTile
    \/ ProcessTile
    \/ Fallback
    \/ NoFallback
    \/ Return
    \/ HandleException

Spec == Init /\ [][Next]_vars

----------------------------------------------------------------------------
\* The matching rules called on their own: _text_matches_target, then
\* _fuzzy_match, then consolidate_results on the one detection
\* (arg_text, 0.8), each with the same text and target.

MatchStrings == StringsOver(Alphabet, 0, MaxStrLen)

InitMatch ==
    /\ BatchIdle
    /\ arg_text \in MatchStrings
    /\ arg_target \in {None} \cup {Some(t) : t \in MatchStrings}
    /\ fpc = "call"
    /\ ret_exact = ""
    /\ ret_fuzzy = FALSE
    /\ ret_matches = <<>>
    /\ ExtIdle

CallTextMatches ==
    /\ fpc = "call"
    /\ ret_exact' = text_matches_target(arg_text, arg_target)
    /\ fpc' = "exact_done"
    /\ UNCHANGED <<arg_text, arg_target, ret_fuzzy, ret_matches>>
    /\ UNCHANGED batch_vars
    /\ UNCHANGED ext_vars

CallFuzzyMatch ==
    /\ fpc = "exact_done"
    /\ ret_fuzzy' = fuzzy_match(arg_text, arg_target)
    /\ fpc' = "fuzzy_done"
    /\ UNCHANGED <<arg_text, arg_target, ret_exact, ret_matches>>
    /\ UNCHANGED batch_vars
    /\ UNCHANGED ext_vars

CallConsolidate ==
    /\ fpc = "fuzzy_done"
    /\ ret_matches' =
           LET c == consolidate_results(<< <<arg_text, 80>> >>, arg_target)
           IN  IF c.raised THEN <<"TypeError">> ELSE c.matches
    /\ fpc' = "done"
    /\ UNCHANGED <<arg_text, arg_target, ret_exact, ret_fuzzy>>
    /\ UNCHANGED batch_vars
    /\ UNCHANGED ext_vars

NextMatch ==
    \/ CallTextMatches
    \/ CallFuzzyMatch
    \/ CallConsolidate

SpecMatch == InitMatch /\ [][NextMatch]_vars

----------------------------------------------------------------------------
\* Vocabulary of the properties.

\* process_captcha_tiles has returned
Returned == pc = "done"

\* it returned the dict of lines 412-419
ReturnedNormally == pc = "done" /\ "total_tiles" \in DOMAIN result

\* it returned the dict of its exception handler
ReturnedFromHandler == pc = "done" /\ "total_tiles" \notin DOMAIN result

\* the positions of the submitted list
TilePositions == IF IsNone(tiles) THEN {} ELSE 0..(Len(Val(tiles)) - 1)

TileAt(i) == Val(tiles)[i + 1]

\* the tiles that carry image data, and those among them that decode
WithImageData == {i \in TilePositions : TileAt(i).base64Image.kind # "none"}

Decodable == {i \in TilePositions : TileAt(i).base64Image.kind = "image"}

Corrupt == {i \in TilePositions : TileAt(i).base64Image.kind = "corrupt"}

\* the tiles for which the consolidator returns a non-empty list
RealMatches ==
    {i \in Decodable :
        LET c == consolidate_results(TileAt(i).base64Image.detections, target)
        IN  ~c.raised /\ c.matches # <<>>}

\* the tiles whose pooled detections hold a text equal to the target
ExactTiles ==
    {i \in Decodable :
        /\ ~IsNone(target)
        /\ \E k \in 1..Len(TileAt(i).base64Image.detections) :
               TileAt(i).base64Image.detections[k][1] = Val(target)}

ElementsOf(s) == {s[k] : k \in 1..Len(s)}

StrictlyAscending(s) == \A i, j \in 1..Len(s) : i < j => s[i] < s[j]

NoDuplicates(s) == \A i, j \in 1..Len(s) : i # j => s[i] # s[j]

\* the dict says that its indices come from the random fallback
MarkedFallback(r) == "usedFallback" \in DOMAIN r /\ r.usedFallback

\* the dict explains a failure
HasReason(r) == "error" \in DOMAIN r \/ "reason" \in DOMAIN r

\* positions at which two str of equal length differ
Mismatches(a, b) == Cardinality({i \in 1..Len(a) : a[i] # b[i]})

----------------------------------------------------------------------------
\* C1 (as stated): every non-empty tile list, whatever its tiles hold,
\* returns success = true.
C1_NonEmptyBatchSucceeds ==
    (Returned /\ ~IsNone(tiles) /\ Len(Val(tiles)) > 0) => result.success

\* C1 (amended): every tile list in which at least one tile carries image
\* data returns success = true, and a list in which no tile carries image
\* data returns success = false.
C1_BatchWithImageDataSucceeds ==
    (Returned /\ ~IsNone(tiles)) => (result.success <=> WithImageData # {})

\* a batch with a corrupt tile, a tile without data and no real match
\* returned success through the fallback
C1_Witness ==
    /\ Returned /\ result.success /\ fallback_fired
    /\ Corrupt # {} /\ WithImageData # TilePositions /\ RealMatches = {}

\* C2: in every returned dict matching_indices is strictly ascending, holds
\* no index twice and only positions of 0..total_tiles-1.
C2_IndicesAscendingInRange ==
    ReturnedNormally =>
        /\ StrictlyAscending(result.matching_indices)
        /\ NoDuplicates(result.matching_indices)
        /\ ElementsOf(result.matching_indices) \subseteq 0..(result.total_tiles - 1)

\* C3: when no tile matched and at least one tile was processed, the dict
\* holds min(3, total_tiles) distinct positions of the list, between 1 and
\* 3 of them, and is marked as fallback-derived.
C3_FallbackSelectionMarked ==
    (ReturnedNormally /\ RealMatches = {} /\ result.processed_tiles > 0) =>
        /\ Len(result.matching_indices) = Min(3, result.total_tiles)
        /\ Len(result.matching_indices) \in 1..3
        /\ NoDuplicates(result.matching_indices)
        /\ ElementsOf(result.matching_indices) \subseteq 0..(result.total_tiles - 1)
        /\ MarkedFallback(result)

\* C4: the returned dict carries usedFallback, true exactly when the
\* consolidator found no real match on any tile.
C4_UsedFallbackIffNoRealMatch ==
    ReturnedNormally =>
        /\ "usedFallback" \in DOMAIN result
        /\ result.usedFallback <=> (RealMatches = {})

\* C5: in every returned dict, the handler's included, success is true
\* exactly when matching_indices is non-empty.
C5_SuccessIffNonEmpty ==
    Returned => (result.success <=> Len(result.matching_indices) > 0)

\* the exception handler built the dict
C5_Witness ==
    ReturnedFromHandler /\ "error" \in DOMAIN result /\ ~result.success

\* C6: a tile whose pooled detections hold a text equal to the target has
\* its position in matching_indices, and the fallback is not taken.
C6_ExactTextTileIsSelected ==
    (Returned /\ ExactTiles # {}) =>
        /\ ExactTiles \subseteq ElementsOf(result.matching_indices)
        /\ ~fallback_fired

\* a batch in which an exact tile, with a second text pooled before the
\* exact one, stands beside tiles that do not match
C6_Witness ==
    /\ Returned /\ ExactTiles # {} /\ ExactTiles # TilePositions
    /\ \E i \in ExactTiles :
           TileAt(i).base64Image.detections[1][1] # Val(target)

\* C7: a text that is the reverse of the target, not equal to it and in no
\* substring relation with it, matches in the first pass, and the
\* consolidator returns it.
C7_ReversedTextMatches ==
    (/\ fpc = "done"
     /\ ~IsNone(arg_target)
     /\ Reverse(arg_text) = Val(arg_target)
     /\ arg_text # Val(arg_target)
     /\ ~IsSubstring(arg_text, Val(arg_target))
     /\ ~IsSubstring(Val(arg_target), arg_text))
    => (ret_exact = "True" /\ ret_matches = <<arg_text>>)

C7_Witness ==
    /\ fpc = "done"
    /\ ~IsNone(arg_target)
    /\ Len(arg_text) >= 2
    /\ Reverse(arg_text) = Val(arg_target)
    /\ arg_text # Val(arg_target)
    /\ ret_exact = "True"

\* C8 (as stated): _fuzzy_match rejects two str of length 4 that differ in
\* one position, accepts two str of equal length that differ in no
\* position, accepts str of equal length exactly when
\* 1 - mismatches/length >= 0.8, and rejects str of different length.
C8_FuzzyAcceptsIffSimilar ==
    (fpc = "done" /\ ~IsNone(arg_target)) =>
        LET t == Val(arg_target)
        IN  IF Len(arg_text) # Len(t) THEN ~ret_fuzzy
            ELSE /\ (Len(t) = 4 /\ Mismatches(arg_text, t) = 1) => ~ret_fuzzy
                 /\ Mismatches(arg_text, t) = 0 => ret_fuzzy
                 /\ Len(t) > 0 =>
                        (ret_fuzzy <=>
                            5 * (Len(t) - Mismatches(arg_text, t)) >= 4 * Len(t))

\* C8 (amended): the same for non-empty str; two empty str are rejected.
C8_FuzzyAcceptsIffSimilarNonEmpty ==
    (fpc = "done" /\ ~IsNone(arg_target)) =>
        LET t == Val(arg_target)
        IN  IF Len(arg_text) # Len(t) THEN ~ret_fuzzy
            ELSE IF Len(t) = 0 THEN ~ret_fuzzy
            ELSE /\ (Len(t) = 4 /\ Mismatches(arg_text, t) = 1) => ~ret_fuzzy
                 /\ Mismatches(arg_text, t) = 0 => ret_fuzzy
                 /\ ret_fuzzy <=>
                        5 * (Len(t) - Mismatches(arg_text, t)) >= 4 * Len(t)

\* two str of length 5 that differ in one position (similarity 0.8) were
\* accepted
C8_Witness ==
    /\ fpc = "done"
    /\ ~IsNone(arg_target)
    /\ Len(arg_text) = 5
    /\ Len(Val(arg_target)) = 5
    /\ Mismatches(arg_text, Val(arg_target)) = 1
    /\ ret_fuzzy

\* C9: of a batch in which one tile is corrupt and every other tile
\* decodes, processed_tiles is total_tiles - 1.
C9_CorruptTileNotCounted ==
    (/\ ReturnedNormally
     /\ Cardinality(Corrupt) = 1
     /\ Decodable \cup Corrupt = TilePositions)
    => result.processed_tiles = result.total_tiles - 1

\* C10: an empty tile list and a missing target each return
\* success = false with a reason.
C10_InvalidRequestFails ==
    (/\ Returned
     /\ ~IsNone(tiles)
     /\ Len(Val(tiles)) = 0 \/ IsNone(target))
    => (~result.success /\ HasReason(result))

----------------------------------------------------------------------------
\* The two scenarios of the batch contract: one recognized text per tile.

Text99 == <<9, 9>>
Text8 == <<8>>

\* a decodable tile for which the recognizers pool the given texts
TileReading(texts) ==
    Tile(Payload("image", [k \in 1..Len(texts) |-> <<texts[k], 80>>]))

\* tiles 0..4 read "47", "74", "12", "47", "99"
ScenarioReadTiles ==
    <<TileReading(<<Text47>>), TileReading(<<Text74>>),
      TileReading(<<Text12>>), TileReading(<<Text47>>),
      TileReading(<<Text99>>)>>

\* three decodable tiles on which every recognizer returns nothing
ScenarioBlankTiles ==
    <<TileReading(<<>>), TileReading(<<>>), TileReading(<<>>)>>

ScenarioTileOptions ==
    {TileReading(<<>>)}
    \cup {TileReading(<<t>>) : t \in {Text47, Text74, Text12, Text99}}

ScenarioTileLists ==
    [1..Len(ScenarioReadTiles) -> ScenarioTileOptions]
    \cup [1..Len(ScenarioBlankTiles) -> ScenarioTileOptions]

ScenarioTargets == {Some(Text47), Some(Text8)}

\* process_captcha_tiles has been called with tiles that all decode
InitScenario ==
    /\ tiles \in {Some(l) : l \in ScenarioTileLists}
    /\ target \in ScenarioTargets
    /\ pc = "start"
    /\ idx = 0
    /\ matching_indices = <<>>
    /\ processed_count = 0
    /\ result = None
    /\ fallback_fired = FALSE
    /\ MatcherIdle
    /\ ExtIdle

NextScenario ==
    \/ Begin
    \/ ProcessTile
    \/ Fallback
    \/ NoFallback
    \/ Return

SpecScenario == InitScenario /\ [][NextScenario]_vars

\* C11: for target "47" and five tiles whose recognizers pool "47", "74",
\* "12", "47", "99", the batch returns matching_indices = [0, 1, 3] and the
\* fallback does not fire.
C11_ScenarioReadIndices ==
    (Returned /\ tiles = Some(ScenarioReadTiles) /\ target = Some(Text47))
        => /\ result.matching_indices = <<0, 1, 3>>
           /\ ~fallback_fired
           /\ ~MarkedFallback(result)

C11_Witness ==
    /\ Returned
    /\ tiles = Some(ScenarioReadTiles)
    /\ target = Some(Text47)
    /\ result.success

\* C12: for target "8" and three decodable tiles without any detection, the
\* batch returns between one and three indices and the result says that the
\* fallback was used.
C12_ScenarioBlankFallbackReported ==
    (Returned /\ tiles = Some(ScenarioBlankTiles) /\ target = Some(Text8))
        => /\ Len(result.matching_indices) > 0
           /\ Len(result.matching_indices) <= max_fallback
           /\ MarkedFallback(result)

----------------------------------------------------------------------------
\* The response contract.

ResponseFields == {"target", "matching_indices", "processed_tiles", "success"}

\* C13: every dict process_captcha_tiles returns, from the normal path and
\* from the exception handler alike, has the fields target, matching_indices,
\* processed_tiles and success, and its target is the argument target.
C13_ResponseFieldsAndTargetEcho ==
    Returned =>
        /\ ResponseFields \subseteq DOMAIN result
        /\ result.target = target

C13_Witness ==
    /\ ReturnedFromHandler
    /\ target = Some(Text47)
    /\ ResponseFields \subseteq DOMAIN result

----------------------------------------------------------------------------
\* Decoding of one tile payload, enhanced_ocr_process lines 313-319.
\*
\* A payload is a text over three kinds of symbol: "M", base64 characters
\* that encode the leading bytes of an image file; "a", any other characters
\* of the base64 alphabet (letters, digits, "+", "/"); ",", a character outside
\* the alphabet (":", ";", ",").

MaxPayloadLen == 4

Base64Alphabet == {"M", "a"}

PayloadSymbols == Base64Alphabet \cup {","}

PayloadTexts == UNION {[1..n -> PayloadSymbols] : n \in 0..MaxPayloadLen}

\* "data:image/png;base64,": letters of the alphabet, then the comma
DataUriPrefix == <<"a", ",">>

InBase64Alphabet(c) == c \in Base64Alphabet

\* base64.b64decode(s) with validate=False: characters outside the alphabet
\* are discarded, every other character contributes to the bytes in order
b64decode(s) == SelectSeq(s, InBase64Alphabet)

\* Image.open(io.BytesIO(data)) identifies the file by its leading bytes
ImageOpens(data) == Len(data) > 0 /\ Head(data) = "M"

\* lines 314-319: "image" when both calls succeed, otherwise the handler
DecodeOutcome(base64_image) ==
    IF ImageOpens(b64decode(base64_image))
    THEN "image"
    ELSE "Image decode failed"

InitDecode ==
    /\ dec_payload \in PayloadTexts
    /\ dec_pc = "decode"
    /\ dec_ret = ""
    /\ BatchIdle /\ MatcherIdle
    /\ visited = {} /\ OcrIdle /\ ConsolidateIdle /\ AutoIdle

\* lines 314-316 and the code after the try block
DecodeImage ==
    /\ dec_pc = "decode"
    /\ DecodeOutcome(dec_payload) = "image"
    /\ dec_ret' = "image"
    /\ dec_pc' = "done"
    /\ UNCHANGED <<dec_payload, visited, ocr_vars, cons_vars, auto_vars>>
    /\ UNCHANGED batch_vars
    /\ UNCHANGED matcher_vars

\* lines 317-319
DecodeFails ==
    /\ dec_pc = "decode"
    /\ DecodeOutcome(dec_payload) # "image"
    /\ dec_ret' = DecodeOutcome(dec_payload)
    /\ dec_pc' = "done"
    /\ UNCHANGED <<dec_payload, visited, ocr_vars, cons_vars, auto_vars>>
    /\ UNCHANGED batch_vars
    /\ UNCHANGED matcher_vars

NextDecode == DecodeImage \/ DecodeFails

SpecDecode == InitDecode /\ [][NextDecode]_vars

HasDataUriPrefix(s) ==
    /\ Len(s) >= Len(DataUriPrefix)
    /\ SubSeq(s, 1, Len(DataUriPrefix)) = DataUriPrefix

WithoutDataUriPrefix(s) == SubSeq(s, Len(DataUriPrefix) + 1, Len(s))

\* C14: a payload that is a data-URI prefix in front of base64 data which
\* decodes to an image is decoded to that image, not to a decode failure.
C14_DataUriPrefixStripped ==
    (/\ dec_pc = "done"
     /\ HasDataUriPrefix(dec_payload)
     /\ DecodeOutcome(WithoutDataUriPrefix(dec_payload)) = "image")
        => dec_ret = "image"

----------------------------------------------------------------------------
\* The recognizers, lines 119-224.  A recognized raw text is a sequence of
\* characters: the digits 0..9 and Blank, any character that is not a digit.

Blank == 10

IsDigit(c) == c \in 0..9

\* self.confidence_threshold, in percent
confidence_threshold == 50

\* the confidence given to a number found by image_to_string, in percent
string_confidence == 80

\* the confidence given to a digit found by the pattern heuristic, in percent
pattern_confidence == 60

\* "if len(num) >= 2"
min_digits == 2

\* the page segmentation modes of the four Tesseract configurations
configs == <<8, 7, 6, 13>>

\* str.strip()
RECURSIVE lstrip(_)
lstrip(s) ==
    IF s # <<>> /\ Head(s) = Blank THEN lstrip(Tail(s)) ELSE s

strip(s) == Reverse(lstrip(Reverse(lstrip(s))))

\* str.isdigit()
isdigit(s) == Len(s) > 0 /\ \A k \in 1..Len(s) : IsDigit(s[k])

\* re.findall(r'\d+', text), run being the digits read since the last
\* character that is not a digit
RECURSIVE findall_digits(_, _)
findall_digits(text, run) ==
    LET closed == IF run = <<>> THEN <<>> ELSE <<run>>
    IN  IF text = <<>> THEN closed
        ELSE IF IsDigit(Head(text))
             THEN findall_digits(Tail(text), Append(run, Head(text)))
             ELSE closed \o findall_digits(Tail(text), <<>>)

\* lines 139-143: the words of image_to_data that are digit strings with a
\* confidence above the threshold
RECURSIVE tesseract_words_unfiltered(_)
tesseract_words_unfiltered(words) ==
    IF words = <<>> THEN <<>>
    ELSE LET w == Head(words)
             text == strip(w.text)
         IN  (IF isdigit(text) THEN << <<text, w.conf>> >> ELSE <<>>)
             \o tesseract_words_unfiltered(Tail(words))

RECURSIVE tesseract_words(_)
tesseract_words(words) ==
    IF words = <<>> THEN <<>>
    ELSE LET w == Head(words)
             text == strip(w.text)
         IN  (IF isdigit(text) /\ w.conf > confidence_threshold
              THEN << <<text, w.conf>> >>
              ELSE <<>>)
             \o tesseract_words(Tail(words))

\* lines 147-150: the numbers of at least two digits, at the default
\* confidence
RECURSIVE tesseract_numbers(_)
tesseract_numbers(numbers) ==
    IF numbers = <<>> THEN <<>>
    ELSE (IF Len(Head(numbers)) >= min_digits
          THEN << <<Head(numbers), string_confidence>> >>
          ELSE <<>>)
         \o tesseract_numbers(Tail(numbers))

\* One pass of the loop over configs, lines 134-154.  o says what the engine
\* does under this configuration: data_raised, image_to_data raises instead
\* of returning o.words; string_raised, image_to_string raises instead of
\* returning o.text.  The result is what the pass appends to results.
tesseract_config_unguarded(o) ==
    tesseract_words(o.words)
    \o tesseract_numbers(findall_digits(strip(o.text), <<>>))

tesseract_config(o) ==
    IF o.data_raised THEN <<>>
    ELSE tesseract_words(o.words)
         \o (IF o.string_raised THEN <<>>
             ELSE tesseract_numbers(findall_digits(strip(o.text), <<>>)))

\* lines 174-179: the numbers in one result of readtext
RECURSIVE easyocr_numbers(_, _)
easyocr_numbers(numbers, confidence) ==
    IF numbers = <<>> THEN <<>>
    ELSE (IF Len(Head(numbers)) >= min_digits
             /\ confidence > confidence_threshold
          THEN << <<Head(numbers), confidence>> >>
          ELSE <<>>)
         \o easyocr_numbers(Tail(numbers), confidence)

RECURSIVE easyocr_results(_)
easyocr_results(ocr_results) ==
    IF ocr_results = <<>> THEN <<>>
    ELSE easyocr_numbers(findall_digits(Head(ocr_results).text, <<>>),
                         Head(ocr_results).conf)
         \o easyocr_results(Tail(ocr_results))

\* extract_numbers_easyocr, lines 161-184.  reader: self.easyocr_reader is
\* set; o.raised: readtext raises instead of returning o.ocr_results.
extract_numbers_easyocr(reader, o) ==
    IF ~reader THEN <<>>
    ELSE IF o.raised THEN <<>>
    ELSE easyocr_results(o.ocr_results)

\* extract_numbers_pattern_matching, lines 186-224: one detection for every
\* region that looks like a digit, its text a digit drawn at random
extract_numbers_pattern_matching(digits) ==
    [k \in 1..Len(digits) |-> << <<digits[k]>>, pattern_confidence >>]

\* preprocess_image, lines 58-117: the variants returned when the OpenCV
\* block appends cv_done variants before it ends or raises
preprocess_image(cv_done) ==
    <<"original", "gray", "contrast", "sharp", "median">>
    \o SubSeq(<<"binary", "adaptive", "morph">>, 1, cv_done)

----------------------------------------------------------------------------
\* enhanced_ocr_process on one decoded tile, step by step (lines 321-373).

MaxPooled == 2

Text4 == <<4>>

Word(text, conf) == [text |-> text, conf |-> conf]

\* what image_to_data and image_to_string may do under one configuration
ConfigOutcomes ==
    [data_raised : BOOLEAN,
     words : {<<>>, <<Word(Text47, 90)>>, <<Word(Text4, 95)>>,
              <<Word(Text47, 30)>>},
     string_raised : BOOLEAN,
     text : {<<>>, <<Blank, 1, 2, Blank, 4>>}]

\* what readtext may do
EasyocrOutcomes ==
    [raised : BOOLEAN,
     ocr_results : {<<>>, <<Word(Text74, 70)>>, <<Word(Text74, 40)>>,
                    <<Word(<<Blank, 7, 4, Blank, 5>>, 70)>>}]

\* the digits the pattern heuristic may draw for one variant
PatternOutcomes == {<<>>, <<4>>}

OcrTargets == {Some(Text47)}

\* n copies of x
Copies(x, n) == [k \in 1..n |-> x]

ocr_frame ==
    <<batch_vars, matcher_vars, visited, dec_vars, cons_vars, auto_vars>>

\* enhanced_ocr_process has decoded the image (line 321)
InitOCR ==
    /\ ocr_pc = "preprocess"
    /\ ocr_target \in OcrTargets
    /\ tesseract_available \in BOOLEAN
    /\ easyocr_available \in BOOLEAN
    /\ easyocr_reader \in BOOLEAN
    /\ easyocr_reader => easyocr_available
    /\ variants = 0 /\ variant = 0 /\ config = 0
    /\ ocr_all_results = <<>> /\ sources = <<>>
    /\ call_raised = FALSE /\ call_failed = FALSE /\ call_added = 0
    /\ any_raised = FALSE
    /\ calls = 0 /\ ocr_result = None
    /\ BatchIdle /\ MatcherIdle
    /\ visited = {} /\ DecodeIdle /\ ConsolidateIdle /\ AutoIdle

\* lines 324-328: the preprocessor returns its list of variants
Preprocess ==
    /\ ocr_pc = "preprocess"
    /\ \E cv_done \in 0..3 : variants' = Len(preprocess_image(cv_done))
    /\ ocr_pc' = "tesseract"
    /\ UNCHANGED <<ocr_target, tesseract_available, easyocr_available,
                   easyocr_reader, variant, config, ocr_all_results, sources,
                   call_raised, call_failed, call_added, any_raised, calls,
                   ocr_result>>
    /\ UNCHANGED ocr_frame

\* line 324 raises outside the OpenCV block: the handler of lines 371-373
PreprocessRaises ==
    /\ ocr_pc = "preprocess"
    /\ ocr_result' = [success |-> FALSE, error |-> "preprocess"]
    /\ ocr_pc' = "returned"
    /\ UNCHANGED <<ocr_target, tesseract_available, easyocr_available,
                   easyocr_reader, variants, variant, config,
                   ocr_all_results, sources, call_raised, call_failed,
                   call_added, any_raised, calls>>
    /\ UNCHANGED ocr_frame

\* line 332, TESSERACT_AVAILABLE false: no call
TesseractSkipped ==
    /\ ocr_pc = "tesseract"
    /\ ~tesseract_available
    /\ ocr_pc' = "easyocr"
    /\ call_raised' = FALSE /\ call_failed' = FALSE /\ call_added' = 0
    /\ UNCHANGED <<ocr_target, tesseract_available, easyocr_available,
                   easyocr_reader, variants, variant, config,
                   ocr_all_results, sources, any_raised, calls, ocr_result>>
    /\ UNCHANGED ocr_frame

\* lines 333-334 with lines 134-154: one configuration of the Tesseract
\* call on the variant at hand; after the last one the call returns and its
\* results are pooled
TesseractConfig ==
    /\ ocr_pc = "tesseract"
    /\ tesseract_available
    /\ \E o \in ConfigOutcomes :
         LET r == tesseract_config(o)
             raised == o.data_raised \/ o.string_raised
             first == config = 0
         IN  /\ Len(ocr_all_results) + Len(r) <= MaxPooled
             /\ ocr_all_results' = ocr_all_results \o r
             /\ sources' = sources \o Copies("tesseract", Len(r))
             /\ call_raised' = IF first THEN raised ELSE call_raised \/ raised
             /\ call_failed' = IF first THEN o.data_raised
                               ELSE call_failed /\ o.data_raised
             /\ call_added' = IF first THEN Len(r) ELSE call_added + Len(r)
             /\ any_raised' = (any_raised \/ raised)
    /\ calls' = IF config = 0 THEN calls + 1 ELSE calls
    /\ config' = IF config + 1 = Len(configs) THEN 0 ELSE config + 1
    /\ ocr_pc' = IF config + 1 = Len(configs) THEN "easyocr" ELSE "tesseract"
    /\ UNCHANGED <<ocr_target, tesseract_available, easyocr_available,
                   easyocr_reader, variants, variant, ocr_result>>
    /\ UNCHANGED ocr_frame

\* lines 137 and 146: the engine is called without a timeout and does not
\* answer
TesseractHangs ==
    /\ ocr_pc = "tesseract"
    /\ tesseract_available
    /\ ocr_pc' = "blocked"
    /\ calls' = IF config = 0 THEN calls + 1 ELSE calls
    /\ UNCHANGED <<ocr_target, tesseract_available, easyocr_available,
                   easyocr_reader, variants, variant, config,
                   ocr_all_results, sources, call_raised, call_failed,
                   call_added, any_raised, ocr_result>>
    /\ UNCHANGED ocr_frame

\* line 338, EASYOCR_AVAILABLE false: no call
EasyocrSkipped ==
    /\ ocr_pc = "easyocr"
    /\ ~easyocr_available
    /\ ocr_pc' = "pattern"
    /\ call_raised' = FALSE /\ call_failed' = FALSE /\ call_added' = 0
    /\ UNCHANGED <<ocr_target, tesseract_available, easyocr_available,
                   easyocr_reader, variants, variant, config,
                   ocr_all_results, sources, any_raised, calls, ocr_result>>
    /\ UNCHANGED ocr_frame

\* lines 339-340 with lines 161-184
EasyocrCall ==
    /\ ocr_pc = "easyocr"
    /\ easyocr_available
    /\ \E o \in EasyocrOutcomes :
         LET r == extract_numbers_easyocr(easyocr_reader, o)
             raised == easyocr_reader /\ o.raised
         IN  /\ Len(ocr_all_results) + Len(r) <= MaxPooled
             /\ ocr_all_results' = ocr_all_results \o r
             /\ sources' = sources \o Copies("easyocr", Len(r))
             /\ call_raised' = raised
             /\ call_failed' = raised
             /\ call_added' = Len(r)
             /\ any_raised' = (any_raised \/ raised)
    /\ calls' = calls + 1
    /\ ocr_pc' = "pattern"
    /\ UNCHANGED <<ocr_target, tesseract_available, easyocr_available,
                   easyocr_reader, variants, variant, config, ocr_result>>
    /\ UNCHANGED ocr_frame

\* line 172: readtext is called without a timeout and does not answer
EasyocrHangs ==
    /\ ocr_pc = "easyocr"
    /\ easyocr_available
    /\ easyocr_reader
    /\ ocr_pc' = "blocked"
    /\ calls' = calls + 1
    /\ UNCHANGED <<ocr_target, tesseract_available, easyocr_available,
                   easyocr_reader, variants, variant, config,
                   ocr_all_results, sources, call_raised, call_failed,
                   call_added, any_raised, ocr_result>>
    /\ UNCHANGED ocr_frame

\* lines 343-345, the end of one pass of the loop over the variants
PatternCall ==
    /\ ocr_pc = "pattern"
    /\ \E digits \in PatternOutcomes :
         LET r == extract_numbers_pattern_matching(digits)
         IN  /\ Len(ocr_all_results) + Len(r) <= MaxPooled
             /\ ocr_all_results' = ocr_all_results \o r
             /\ sources' = sources \o Copies("pattern_matching", Len(r))
             /\ call_added' = Len(r)
    /\ call_raised' = FALSE
    /\ call_failed' = FALSE
    /\ calls' = calls + 1
    /\ variant' = variant + 1
    /\ ocr_pc' = IF variant + 1 = variants THEN "consolidate" ELSE "tesseract"
    /\ UNCHANGED <<ocr_target, tesseract_available, easyocr_available,
                   easyocr_reader, variants, config, any_raised, ocr_result>>
    /\ UNCHANGED ocr_frame

\* lines 347-369
OcrReturn ==
    /\ ocr_pc = "consolidate"
    /\ ocr_result' =
           enhanced_ocr_process(Payload("image", ocr_all_results), ocr_target)
    /\ ocr_pc' = "returned"
    /\ UNCHANGED <<ocr_target, tesseract_available, easyocr_available,
                   easyocr_reader, variants, variant, config,
                   ocr_all_results, sources, call_raised, call_failed,
                   call_added, any_raised, calls>>
    /\ UNCHANGED ocr_frame

NextOCR ==
    \/ Preprocess
    \/ PreprocessRaises
    \/ TesseractSkipped
    \/ TesseractConfig
    \/ TesseractHangs
    \/ EasyocrSkipped
    \/ EasyocrCall
    \/ EasyocrHangs
    \/ PatternCall
    \/ OcrReturn

SpecOCR == InitOCR /\ [][NextOCR]_vars

----------------------------------------------------------------------------
\* Claims about the recognizers within enhanced_ocr_process.

OcrReturned == ocr_pc = "returned"

\* a recognizer call has just returned to the loop of lines 330-345
TesseractCallOver == ocr_pc = "easyocr"
EasyocrCallOver == ocr_pc = "pattern"

\* the dict of lines 362-369, not one of the two error dicts
NormalOcrResult(r) == "matches" \in DOMAIN r /\ "error" \notin DOMAIN r

\* recognizer calls made on every variant
CallsPerVariant ==
    1 + (IF tesseract_available THEN 1 ELSE 0)
      + (IF easyocr_available THEN 1 ELSE 0)

C16_NoCallBlocksForEver == OcrReturned \/ ENABLED NextOCR

\* C20: a tile whose detections all come from the pattern heuristic is not
\* judged a match.
C20_HeuristicAloneNeverMatches ==
    (/\ OcrReturned
     /\ NormalOcrResult(ocr_result)
     /\ \A k \in 1..Len(sources) : sources[k] = "pattern_matching")
        => ~TileMatches(ocr_result)

----------------------------------------------------------------------------
\* The loop of lines 383-399 with its passes taken in any order: each pass
\* is the body of the loop for one tile not yet visited.

OrderTileOptions ==
    {Tile(Payload("none", <<>>)), Tile(Payload("corrupt", <<>>)),
     TileReading(<<Text47>>), TileReading(<<Text12>>)}

OrderTileLists == UNION {[1..n -> OrderTileOptions] : n \in 0..MaxTiles}

OrderTargets == {Some(Text47), Some(Text12)}

InitAnyOrder ==
    /\ tiles \in {Some(l) : l \in OrderTileLists}
    /\ target \in OrderTargets
    /\ pc = "start"
    /\ idx = 0
    /\ matching_indices = <<>>
    /\ processed_count = 0
    /\ result = None
    /\ fallback_fired = FALSE
    /\ MatcherIdle
    /\ ExtIdle

\* lines 385-387 for the tile at position i
SkipAnyTile ==
    /\ pc = "loop"
    /\ \E i \in TilePositions \ visited :
          /\ ~HasImageData(TileAt(i))
          /\ visited' = visited \cup {i}
    /\ idx' = idx + 1
    /\ UNCHANGED <<tiles, target, pc, matching_indices, processed_count,
                   result, fallback_fired>>
    /\ UNCHANGED matcher_vars
    /\ UNCHANGED <<ocr_vars, dec_vars, cons_vars, auto_vars>>

\* lines 389-395 for the tile at position i
ProcessAnyTile ==
    /\ pc = "loop"
    /\ \E i \in TilePositions \ visited :
          /\ HasImageData(TileAt(i))
          /\ LET r == enhanced_ocr_process(TileAt(i).base64Image, target)
             IN  /\ processed_count' = CountProcessed(processed_count, r)
                 /\ matching_indices' =
                        IF TileMatches(r)
                        THEN AppendIndex(matching_indices, i)
                        ELSE matching_indices
          /\ visited' = visited \cup {i}
    /\ idx' = idx + 1
    /\ UNCHANGED <<tiles, target, pc, result, fallback_fired>>
    /\ UNCHANGED matcher_vars
    /\ UNCHANGED <<ocr_vars, dec_vars, cons_vars, auto_vars>>

NextAnyOrder ==
    \/ Begin
    \/ SkipAnyTile
    \/ ProcessAnyTile
    \/ Fallback
    \/ NoFallback
    \/ Return

SpecAnyOrder == InitAnyOrder /\ [][NextAnyOrder]_vars

----------------------------------------------------------------------------
\* Calls of consolidate_results on pooled detections of several texts.

MaxDetections == 3

Text11111 == <<1, 1, 1, 1, 1>>
Text11112 == <<1, 1, 1, 1, 2>>
Text21111 == <<2, 1, 1, 1, 1>>
Text22222 == <<2, 2, 2, 2, 2>>

ConsolidateTexts == {Text11111, Text11112, Text21111, Text22222, <<1>>}

ConsolidateConfidences == {60, 80, 90}

ConsolidateDetections ==
    {<<t, c>> : t \in ConsolidateTexts, c \in ConsolidateConfidences}

ConsolidateLists ==
    UNION {[1..n -> ConsolidateDetections] : n \in 0..MaxDetections}

ConsolidateTargets == {Some(Text11111), Some(Text11112)}

InitConsolidate ==
    /\ cons_results \in ConsolidateLists
    /\ cons_target \in ConsolidateTargets
    /\ cons_pc = "call"
    /\ cons_ret = <<>>
    /\ BatchIdle /\ MatcherIdle
    /\ visited = {} /\ OcrIdle /\ DecodeIdle /\ AutoIdle

\* the texts of all_results that pass _text_matches_target
FirstPassTexts(all_results, tgt) ==
    {all_results[k][1] : k \in
        {j \in 1..Len(all_results) :
            text_matches_target(all_results[j][1], tgt) = "True"}}

\* the texts of all_results that pass _fuzzy_match
FuzzyPassTexts(all_results, tgt) ==
    {all_results[k][1] : k \in
        {j \in 1..Len(all_results) : fuzzy_match(all_results[j][1], tgt)}}

\* lines 244-245
ConsolidateNothing ==
    /\ cons_pc = "call"
    /\ cons_results = <<>>
    /\ cons_ret' = consolidate_results(cons_results, cons_target).matches
    /\ cons_pc' = "done"
    /\ UNCHANGED <<cons_results, cons_target, visited, ocr_vars, dec_vars,
                   auto_vars>>
    /\ UNCHANGED batch_vars
    /\ UNCHANGED matcher_vars

\* lines 247-267 and 275: the first pass finds a match, "if not matches"
\* is false
ConsolidateFirstPass ==
    /\ cons_pc = "call"
    /\ cons_results # <<>>
    /\ FirstPassTexts(cons_results, cons_target) # {}
    /\ cons_ret' = consolidate_results(cons_results, cons_target).matches
    /\ cons_pc' = "done"
    /\ UNCHANGED <<cons_results, cons_target, visited, ocr_vars, dec_vars,
                   auto_vars>>
    /\ UNCHANGED batch_vars
    /\ UNCHANGED matcher_vars

\* lines 247-275: the first pass finds nothing, the fuzzy pass runs
ConsolidateFuzzyPass ==
    /\ cons_pc = "call"
    /\ cons_results # <<>>
    /\ FirstPassTexts(cons_results, cons_target) = {}
    /\ cons_ret' = consolidate_results(cons_results, cons_target).matches
    /\ cons_pc' = "done"
    /\ UNCHANGED <<cons_results, cons_target, visited, ocr_vars, dec_vars,
                   auto_vars>>
    /\ UNCHANGED batch_vars
    /\ UNCHANGED matcher_vars

NextConsolidate ==
    \/ ConsolidateNothing
    \/ ConsolidateFirstPass
    \/ ConsolidateFuzzyPass

SpecConsolidate == InitConsolidate /\ [][NextConsolidate]_vars

ConsolidateReturned == cons_pc = "done"

\* the confidences of the detections of all_results whose text is t: their
\* sum and their number
RECURSIVE ConfidenceSum(_, _)
ConfidenceSum(all_results, t) ==
    IF all_results = <<>> THEN 0
    ELSE (IF Head(all_results)[1] = t THEN Head(all_results)[2] ELSE 0)
         + ConfidenceSum(Tail(all_results), t)

ConfidenceCount(all_results, t) ==
    Cardinality({k \in 1..Len(all_results) : all_results[k][1] = t})

\* the average confidence of text a is at least that of text b
AverageAtLeast(all_results, a, b) ==
    ConfidenceSum(all_results, a) * ConfidenceCount(all_results, b)
        >= ConfidenceSum(all_results, b) * ConfidenceCount(all_results, a)

\* C18: the fuzzy pass runs only when the first pass matched no text: the
\* returned list holds the first-pass matches when there is one, otherwise
\* the fuzzy matches, and never a fuzzy-only text next to a first-pass match.
C18_FuzzyPassOnlyWithoutFirstPassMatch ==
    ConsolidateReturned =>
        LET first == FirstPassTexts(cons_results, cons_target)
            fuzzy == FuzzyPassTexts(cons_results, cons_target)
        IN  /\ first # {} => ElementsOf(cons_ret) = first
            /\ first = {} => ElementsOf(cons_ret) = fuzzy

\* a first-pass match together with a text only the fuzzy pass would accept
C18_Witness ==
    /\ ConsolidateReturned
    /\ FirstPassTexts(cons_results, cons_target) # {}
    /\ FuzzyPassTexts(cons_results, cons_target)
           \ FirstPassTexts(cons_results, cons_target) # {}
    /\ ElementsOf(cons_ret) = FirstPassTexts(cons_results, cons_target)

\* C19: the returned list holds each matching text once, whatever the
\* number of its detections, and in order of non-increasing average
\* confidence, the average being taken over all detections of the same text.
C19_GroupedAveragedSorted ==
    ConsolidateReturned =>
        /\ NoDuplicates(cons_ret)
        /\ \A j, k \in 1..Len(cons_ret) :
               j < k => AverageAtLeast(cons_results, cons_ret[j], cons_ret[k])

\* a text detected twice whose average puts it behind a text detected later
C19_Witness ==
    /\ ConsolidateReturned
    /\ Len(cons_ret) = 2
    /\ Len(cons_results) = 3
    /\ cons_results[1][1] = cons_ret[2]
    /\ cons_results[2][1] = cons_ret[2]
    /\ cons_results[3][1] = cons_ret[1]
    /\ ~AverageAtLeast(cons_results, cons_ret[2], cons_ret[1])

----------------------------------------------------------------------------
\* One call of extract_numbers_tesseract or extract_numbers_easyocr on one
\* variant (lines 119-184).

MaxReturned == 3

auto_core ==
    <<batch_vars, matcher_vars, visited, ocr_vars, dec_vars, cons_vars>>

AutoCoreIdle ==
    /\ BatchIdle /\ MatcherIdle
    /\ visited = {} /\ OcrIdle /\ DecodeIdle /\ ConsolidateIdle

\* the texts and confidences (in percent) an engine may report for a region
RecognizerWords ==
    {Word(t, c) :
        t \in {Text47, Text4, <<Blank, 4, 7, Blank>>, <<4, Blank, 7>>, <<>>},
        c \in {30, 50, 51, 90}}

RecognizerWordLists == {<<>>} \cup {<<w>> : w \in RecognizerWords}

RecognizerConfigOutcomes ==
    [data_raised : BOOLEAN,
     words : RecognizerWordLists,
     string_raised : BOOLEAN,
     text : {<<>>, <<Blank, 1, 2, Blank, 4>>, Text47}]

RecognizerEasyocrOutcomes ==
    [raised : BOOLEAN,
     ocr_results :
         {<<>>}
         \cup {<<Word(t, c)>> :
                 t \in {Text74, <<Blank, 7, 4, Blank, 5>>, <<5>>,
                        <<7, 4, Blank, 1, 2>>},
                 c \in {30, 50, 51, 90}}]

\* the engine reports a digit word under the confidence threshold
LowWord(words) ==
    \E k \in 1..Len(words) :
        isdigit(strip(words[k].text)) /\ words[k].conf < confidence_threshold

\* readtext reports a number of at least two digits under the threshold
LowResult(ocr_results) ==
    \E k \in 1..Len(ocr_results) :
        /\ ocr_results[k].conf < confidence_threshold
        /\ \E j \in 1..Len(findall_digits(ocr_results[k].text, <<>>)) :
               Len(findall_digits(ocr_results[k].text, <<>>)[j]) >= min_digits

rec_frame ==
    <<auto_core, pre_vars, fc_vars, cap_vars, cl_vars, login_vars, alt_vars>>

InitRecognizer ==
    /\ rec_pc = "call"
    /\ rec_engine \in {"tesseract", "easyocr"}
    /\ rec_available \in BOOLEAN
    /\ rec_config = 0
    /\ rec_results = <<>>
    /\ rec_low = FALSE
    /\ AutoCoreIdle
    /\ PreprocessIdle /\ FullCheckIdle /\ CaptchaIdle /\ CleanupIdle
    /\ LoginIdle /\ RearrangeIdle

\* lines 121-122 and 163-164: "return []"
RecognizerUnavailable ==
    /\ rec_pc = "call"
    /\ ~rec_available
    /\ rec_pc' = "done"
    /\ UNCHANGED <<rec_engine, rec_available, rec_config, rec_results,
                   rec_low>>
    /\ UNCHANGED rec_frame

\* lines 134-154: one pass of the loop over configs; after the last pass
\* line 159 returns results
RecognizeTesseractConfig ==
    /\ rec_pc = "call"
    /\ rec_engine = "tesseract"
    /\ rec_available
    /\ \E o \in RecognizerConfigOutcomes :
         LET r == tesseract_config(o)
         IN  /\ Len(rec_results) + Len(r) <= MaxReturned
             /\ rec_results' = rec_results \o r
             /\ rec_low' = (rec_low \/ (~o.data_raised /\ LowWord(o.words)))
    /\ rec_config' = rec_config + 1
    /\ rec_pc' = IF rec_config + 1 = Len(configs) THEN "done" ELSE "call"
    /\ UNCHANGED <<rec_engine, rec_available>>
    /\ UNCHANGED rec_frame

\* lines 166-184
RecognizeEasyocr ==
    /\ rec_pc = "call"
    /\ rec_engine = "easyocr"
    /\ rec_available
    /\ \E o \in RecognizerEasyocrOutcomes :
         LET r == extract_numbers_easyocr(rec_available, o)
         IN  /\ Len(r) <= MaxReturned
             /\ rec_results' = r
             /\ rec_low' = (~o.raised /\ LowResult(o.ocr_results))
    /\ rec_pc' = "done"
    /\ UNCHANGED <<rec_engine, rec_available, rec_config>>
    /\ UNCHANGED rec_frame

NextRecognizer ==
    \/ RecognizerUnavailable
    \/ RecognizeTesseractConfig
    \/ RecognizeEasyocr

SpecRecognizer == InitRecognizer /\ [][NextRecognizer]_vars

RecognizerReturned == rec_pc = "done"

\* C21: every detection returned by extract_numbers_tesseract and by
\* extract_numbers_easyocr is a digit string of at least two digits.
C21_DetectionsHaveTwoDigits ==
    RecognizerReturned =>
        \A k \in 1..Len(rec_results) :
            /\ isdigit(rec_results[k][1])
            /\ Len(rec_results[k][1]) >= min_digits

\* C22: no detection in the list of extract_numbers_tesseract or
\* extract_numbers_easyocr has a confidence under the threshold.
C22_NoDetectionUnderThreshold ==
    \A k \in 1..Len(rec_results) : rec_results[k][2] >= confidence_threshold

\* the engine reported a digit word under the threshold, and the list
\* returned holds a detection of the per-word path
C22_Witness ==
    /\ RecognizerReturned
    /\ rec_engine = "tesseract"
    /\ rec_low
    /\ \E k \in 1..Len(rec_results) : rec_results[k][2] # string_confidence

----------------------------------------------------------------------------
\* preprocess_image with transforms that raise (lines 58-117), as called at
\* line 324 of enhanced_ocr_process.

\* the transforms outside any try block, in the order they run: the
\* conversion to RGB (line 64) and the PIL transforms of lines 70-84
PilTransforms == <<"rgb", "gray", "contrast", "sharp", "median">>

\* the statements of the try block of lines 88-115, in the order they run:
\* the conversion of line 90 and the three OpenCV variants
CvTransforms == <<"cv_convert", "binary", "adaptive", "morph">>

Transforms == ElementsOf(PilTransforms) \cup ElementsOf(CvTransforms)

\* the variants of a call in which nothing raises
AllVariants == preprocess_image(3)

\* the number of OpenCV variants appended before a statement of the try
\* block raises
cv_variants_done(throwing) ==
    IF "cv_convert" \in throwing \/ "binary" \in throwing THEN 0
    ELSE IF "adaptive" \in throwing THEN 1
    ELSE IF "morph" \in throwing THEN 2
    ELSE 3

\* preprocess_image when the transforms in throwing raise: an exception
\* outside the try block leaves the function, one inside ends the block
preprocess_image_throwing(throwing) ==
    IF ElementsOf(PilTransforms) \cap throwing # {}
    THEN [raised |-> TRUE, images |-> <<>>]
    ELSE [raised |-> FALSE,
          images |-> preprocess_image(cv_variants_done(throwing))]

pre_frame ==
    <<auto_core, rec_vars, fc_vars, cap_vars, cl_vars, login_vars, alt_vars>>

InitPreprocess ==
    /\ pre_throwing \in SUBSET Transforms
    /\ pre_pc = "call"
    /\ pre_ret = None
    /\ AutoCoreIdle
    /\ RecognizerIdle /\ FullCheckIdle /\ CaptchaIdle /\ CleanupIdle
    /\ LoginIdle /\ RearrangeIdle

\* line 117: the list is returned and line 330 loops over it
PreprocessReturns ==
    /\ pre_pc = "call"
    /\ ~preprocess_image_throwing(pre_throwing).raised
    /\ pre_ret' = preprocess_image_throwing(pre_throwing)
    /\ pre_pc' = "recognizers"
    /\ UNCHANGED pre_throwing
    /\ UNCHANGED pre_frame

\* the exception leaves preprocess_image and is caught at line 371: the
\* tile gets the error dict, no recognizer runs
PreprocessAborts ==
    /\ pre_pc = "call"
    /\ preprocess_image_throwing(pre_throwing).raised
    /\ pre_ret' = preprocess_image_throwing(pre_throwing)
    /\ pre_pc' = "handler"
    /\ UNCHANGED pre_throwing
    /\ UNCHANGED pre_frame

NextPreprocess == PreprocessReturns \/ PreprocessAborts

SpecPreprocess == InitPreprocess /\ [][NextPreprocess]_vars

PreprocessOver == pre_pc \in {"recognizers", "handler"}

\* the variant a transform produces
VariantOf(t) == IF t = "rgb" THEN "original" ELSE t

\* C23: when a single transform raises, preprocess_image returns every
\* other variant in the fixed order, original and grayscale among them, and
\* the tile goes on to the recognizers.
C23_OnlyThrowingVariantSkipped ==
    \A t \in Transforms \ {"cv_convert"} :
        (PreprocessOver /\ pre_throwing = {t}) =>
            /\ pre_pc = "recognizers"
            /\ ~pre_ret.raised
            /\ pre_ret.images =
                   SelectSeq(AllVariants, LAMBDA v : v # VariantOf(t))

----------------------------------------------------------------------------
\* enhanced_full_check (enhanced_bls_automation.py lines 796-835).  The two
\* step functions and the appointment check catch their own exceptions:
\* the steps return False, the appointment check returns [].  Logging and
\* real-time updates are taken not to raise.

MaxSlots == 3

SlotIds == {1, 2, 3}

SlotLists == UNION {[1..n -> SlotIds] : n \in 0..MaxSlots}

\* "return False, []"
FailedCheckReportsSuccess == [ok |-> TRUE, slots |-> <<>>]

FailedCheck == [ok |-> FALSE, slots |-> <<>>]

\* "return True, slots"
CompletedCheck(slots) == [ok |-> TRUE, slots |-> slots]

fc_frame ==
    <<auto_core, rec_vars, pre_vars, cap_vars, cl_vars, login_vars, alt_vars>>

InitFullCheck ==
    /\ fc_pc = "step1"
    /\ fc_events = <<>>
    /\ fc_slots = <<>>
    /\ fc_failed = {}
    /\ fc_ret = None
    /\ AutoCoreIdle
    /\ RecognizerIdle /\ PreprocessIdle /\ CaptchaIdle /\ CleanupIdle
    /\ LoginIdle /\ RearrangeIdle

\* lines 804-805, enhanced_step1_login returns True
StepOneSucceeds ==
    /\ fc_pc = "step1"
    /\ fc_events' = Append(fc_events, "step1")
    /\ fc_pc' = "step2"
    /\ UNCHANGED <<fc_slots, fc_failed, fc_ret>>
    /\ UNCHANGED fc_frame

\* lines 804-807, enhanced_step1_login returns False
StepOneFails ==
    /\ fc_pc = "step1"
    /\ fc_events' = Append(fc_events, "step1")
    /\ fc_failed' = fc_failed \cup {"step1"}
    /\ fc_ret' = FailedCheck
    /\ fc_pc' = "returned"
    /\ UNCHANGED fc_slots
    /\ UNCHANGED fc_frame

\* lines 810-811, enhanced_step2_captcha_login returns True
StepTwoSucceeds ==
    /\ fc_pc = "step2"
    /\ fc_events' = Append(fc_events, "step2")
    /\ fc_pc' = "step3"
    /\ UNCHANGED <<fc_slots, fc_failed, fc_ret>>
    /\ UNCHANGED fc_frame

\* lines 810-813, enhanced_step2_captcha_login returns False
StepTwoFails ==
    /\ fc_pc = "step2"
    /\ fc_events' = Append(fc_events, "step2")
    /\ fc_failed' = fc_failed \cup {"step2"}
    /\ fc_ret' = FailedCheck
    /\ fc_pc' = "returned"
    /\ UNCHANGED fc_slots
    /\ UNCHANGED fc_frame

\* lines 816-817: enhanced_appointment_check returns the slots it parsed
AppointmentCheckReturns ==
    /\ fc_pc = "step3"
    /\ fc_events' = Append(fc_events, "step3")
    /\ fc_slots' \in SlotLists
    /\ fc_pc' = "write"
    /\ UNCHANGED <<fc_failed, fc_ret>>
    /\ UNCHANGED fc_frame

\* lines 816-817 with lines 883-885: an exception inside
\* enhanced_appointment_check is caught there and [] is returned
AppointmentCheckFails ==
    /\ fc_pc = "step3"
    /\ fc_events' = Append(fc_events, "step3")
    /\ fc_failed' = fc_failed \cup {"step3"}
    /\ fc_slots' = <<>>
    /\ fc_pc' = "write"
    /\ UNCHANGED fc_ret
    /\ UNCHANGED fc_frame

\* the writes made so far
Written == Cardinality({k \in 1..Len(fc_events) : fc_events[k] = "write"})

\* lines 822-823: insert_one for the next slot
WriteSlot ==
    /\ fc_pc = "write"
    /\ Written < Len(fc_slots)
    /\ fc_events' = Append(fc_events, "write")
    /\ UNCHANGED <<fc_pc, fc_slots, fc_failed, fc_ret>>
    /\ UNCHANGED fc_frame

\* line 823 raises: the handler of lines 832-835
WriteRaises ==
    /\ fc_pc = "write"
    /\ Written < Len(fc_slots)
    /\ fc_failed' = fc_failed \cup {"write"}
    /\ fc_ret' = FailedCheck
    /\ fc_pc' = "returned"
    /\ UNCHANGED <<fc_events, fc_slots>>
    /\ UNCHANGED fc_frame

\* lines 819-830 after the last write
FullCheckReturns ==
    /\ fc_pc = "write"
    /\ Written = Len(fc_slots)
    /\ fc_ret' = CompletedCheck(fc_slots)
    /\ fc_pc' = "returned"
    /\ UNCHANGED <<fc_events, fc_slots, fc_failed>>
    /\ UNCHANGED fc_frame

NextFullCheck ==
    \/ StepOneSucceeds
    \/ StepOneFails
    \/ StepTwoSucceeds
    \/ StepTwoFails
    \/ AppointmentCheckReturns
    \/ AppointmentCheckFails
    \/ WriteSlot
    \/ WriteRaises
    \/ FullCheckReturns

SpecFullCheck == InitFullCheck /\ [][NextFullCheck]_vars

FullCheckReturned == fc_pc = "returned"

\* the check has returned (False, [])
ReturnedFalseNoSlots ==
    FullCheckReturned /\ ~fc_ret.ok /\ fc_ret.slots = <<>>

\* the check has returned (True, slots)
ReturnedTrueWith(slots) ==
    FullCheckReturned /\ fc_ret.ok /\ fc_ret.slots = slots

\* the steps run in the order login, password and captcha, appointment
\* check, database writes, each only after the steps before it succeeded
StepsInOrder ==
    /\ \A k \in 1..Len(fc_events) :
           fc_events[k] = IF k = 1 THEN "step1"
                          ELSE IF k = 2 THEN "step2"
                          ELSE IF k = 3 THEN "step3"
                          ELSE "write"
    /\ Len(fc_events) >= 2 => "step1" \notin fc_failed
    /\ Len(fc_events) >= 3 => "step2" \notin fc_failed

\* a step that returned False ends the check with (False, []) before any
\* later step
FailedStepEndsCheck ==
    /\ (FullCheckReturned /\ "step1" \in fc_failed)
           => ReturnedFalseNoSlots /\ fc_events = <<"step1">>
    /\ (FullCheckReturned /\ "step2" \in fc_failed)
           => ReturnedFalseNoSlots /\ fc_events = <<"step1", "step2">>

\* C24 as stated: the steps run in order, and when any of the three steps
\* fails the check returns (False, []) and runs nothing later.
C24_AnyFailedStepReturnsFalse ==
    /\ StepsInOrder
    /\ FailedStepEndsCheck
    /\ (FullCheckReturned /\ "step3" \in fc_failed)
           => ReturnedFalseNoSlots /\ Written = 0

\* C24, amended: the steps run in order; a login or captcha step that
\* returns False ends the check with (False, []) before any later step; a
\* failure inside the appointment check gives (True, []) without any
\* write; a write that raises gives (False, []).
C24_StepsInOrderFailureByStep ==
    /\ StepsInOrder
    /\ FailedStepEndsCheck
    /\ (FullCheckReturned /\ "step3" \in fc_failed)
           => ReturnedTrueWith(<<>>) /\ Written = 0
    /\ (FullCheckReturned /\ "write" \in fc_failed) => ReturnedFalseNoSlots
    /\ (FullCheckReturned /\ fc_failed = {})
           => ReturnedTrueWith(fc_slots) /\ Written = Len(fc_slots)

C24_Witness ==
    /\ FullCheckReturned
    /\ fc_ret.ok
    /\ Len(fc_ret.slots) = 2
    /\ fc_events = <<"step1", "step2", "step3", "write", "write">>

----------------------------------------------------------------------------
\* enhanced_captcha_solver from the list unique_images on
\* (enhanced_bls_automation.py lines 473-580).  An image of unique_images is
\* described by what the loop of lines 481-518 does with it: "tile", its
\* data is obtained and a tile is appended; "skip", it has no src, its
\* download is refused or raises, and no tile is appended.

MaxImages == 3

ImageLists == UNION {[1..n -> {"tile", "skip"}] : n \in 0..MaxImages}

\* the lists of distinct indices the API may answer with; MaxImages is out
\* of range for every list of images
IndexLists ==
    {<<>>}
    \cup {<<i>> : i \in 0..MaxImages}
    \cup {l \in {<<i, j>> : i, j \in 0..MaxImages} : l[1] # l[2]}

\* response.json(): a dict with a list of integers under matching_indices,
\* or anything else (no JSON, no dict, no list of integers)
Body(kind, indices) == [kind |-> kind, indices |-> indices]

ApiBodies ==
    {Body("indices", l) : l \in IndexLists} \cup {Body("malformed", <<>>)}

\* line 573, after the loop over matching_indices
clicks_result_needs_click(indices, clicked) == Len(clicked) > 0

clicks_result(indices, clicked) == TRUE

cap_frame ==
    <<auto_core, rec_vars, pre_vars, fc_vars, cl_vars, login_vars, alt_vars>>

InitCaptcha ==
    /\ cap_images \in ImageLists
    /\ cap_tiles = <<>>
    /\ cap_status = 0
    /\ cap_body = None
    /\ cap_pos = 0
    /\ cap_clicked = <<>>
    /\ cap_pc = "images"
    /\ cap_ret = None
    /\ AutoCoreIdle
    /\ RecognizerIdle /\ PreprocessIdle /\ FullCheckIdle /\ CleanupIdle
    /\ LoginIdle /\ RearrangeIdle

\* lines 473-475
NoImages ==
    /\ cap_pc = "images"
    /\ cap_images = <<>>
    /\ cap_ret' = FALSE
    /\ cap_pc' = "returned"
    /\ UNCHANGED <<cap_images, cap_tiles, cap_status, cap_body, cap_pos,
                   cap_clicked>>
    /\ UNCHANGED cap_frame

\* lines 477-481
SomeImages ==
    /\ cap_pc = "images"
    /\ cap_images # <<>>
    /\ cap_pc' = "collect"
    /\ UNCHANGED <<cap_images, cap_tiles, cap_status, cap_body, cap_pos,
                   cap_clicked, cap_ret>>
    /\ UNCHANGED cap_frame

\* lines 482-514: the tile of the image at position idx is appended, with
\* "index": idx
CollectTile ==
    /\ cap_pc = "collect"
    /\ cap_pos < Len(cap_images)
    /\ cap_images[cap_pos + 1] = "tile"
    /\ cap_tiles' = Append(cap_tiles, [index |-> cap_pos])
    /\ cap_pos' = cap_pos + 1
    /\ UNCHANGED <<cap_images, cap_status, cap_body, cap_clicked, cap_pc,
                   cap_ret>>
    /\ UNCHANGED cap_frame

\* the "continue" of lines 485, 500, 508 and 518
SkipImage ==
    /\ cap_pc = "collect"
    /\ cap_pos < Len(cap_images)
    /\ cap_images[cap_pos + 1] = "skip"
    /\ cap_pos' = cap_pos + 1
    /\ UNCHANGED <<cap_images, cap_tiles, cap_status, cap_body, cap_clicked,
                   cap_pc, cap_ret>>
    /\ UNCHANGED cap_frame

\* lines 520-522
NoTiles ==
    /\ cap_pc = "collect"
    /\ cap_pos = Len(cap_images)
    /\ cap_tiles = <<>>
    /\ cap_ret' = FALSE
    /\ cap_pc' = "returned"
    /\ UNCHANGED <<cap_images, cap_tiles, cap_status, cap_body, cap_pos,
                   cap_clicked>>
    /\ UNCHANGED cap_frame

\* lines 524-535: the API answers
PostAnswered ==
    /\ cap_pc = "collect"
    /\ cap_pos = Len(cap_images)
    /\ cap_tiles # <<>>
    /\ cap_status' \in {200, 500}
    /\ cap_body' \in ApiBodies
    /\ cap_pos' = 0
    /\ cap_pc' = "answered"
    /\ UNCHANGED <<cap_images, cap_tiles, cap_clicked, cap_ret>>
    /\ UNCHANGED cap_frame

\* line 533 raises (no connection, timeout): the handler of lines 578-580
PostRaises ==
    /\ cap_pc = "collect"
    /\ cap_pos = Len(cap_images)
    /\ cap_tiles # <<>>
    /\ cap_ret' = FALSE
    /\ cap_pc' = "returned"
    /\ UNCHANGED <<cap_images, cap_tiles, cap_status, cap_body, cap_pos,
                   cap_clicked>>
    /\ UNCHANGED cap_frame

\* lines 574-576
StatusNotOk ==
    /\ cap_pc = "answered"
    /\ cap_status # 200
    /\ cap_ret' = FALSE
    /\ cap_pc' = "returned"
    /\ UNCHANGED <<cap_images, cap_tiles, cap_status, cap_body, cap_pos,
                   cap_clicked>>
    /\ UNCHANGED cap_frame

\* lines 536-544 raise on a body that is not a dict with a list of
\* integers: the handler of lines 578-580
BodyRaises ==
    /\ cap_pc = "answered"
    /\ cap_status = 200
    /\ cap_body.kind = "malformed"
    /\ cap_ret' = FALSE
    /\ cap_pc' = "returned"
    /\ UNCHANGED <<cap_images, cap_tiles, cap_status, cap_body, cap_pos,
                   cap_clicked>>
    /\ UNCHANGED cap_frame

\* lines 543-566: the image unique_images[idx] is clicked
ClickImage ==
    /\ cap_pc = "answered"
    /\ cap_status = 200
    /\ cap_body.kind = "indices"
    /\ cap_pos < Len(cap_body.indices)
    /\ cap_body.indices[cap_pos + 1] < Len(cap_images)
    /\ cap_clicked' = Append(cap_clicked, cap_body.indices[cap_pos + 1])
    /\ cap_pos' = cap_pos + 1
    /\ UNCHANGED <<cap_images, cap_tiles, cap_status, cap_body, cap_pc,
                   cap_ret>>
    /\ UNCHANGED cap_frame

\* lines 568-570: scrolling or clicking raises, the index is given up
ClickRaises ==
    /\ cap_pc = "answered"
    /\ cap_status = 200
    /\ cap_body.kind = "indices"
    /\ cap_pos < Len(cap_body.indices)
    /\ cap_body.indices[cap_pos + 1] < Len(cap_images)
    /\ cap_pos' = cap_pos + 1
    /\ UNCHANGED <<cap_images, cap_tiles, cap_status, cap_body, cap_clicked,
                   cap_pc, cap_ret>>
    /\ UNCHANGED cap_frame

\* line 544, condition false
IndexOutOfRange ==
    /\ cap_pc = "answered"
    /\ cap_status = 200
    /\ cap_body.kind = "indices"
    /\ cap_pos < Len(cap_body.indices)
    /\ cap_body.indices[cap_pos + 1] >= Len(cap_images)
    /\ cap_pos' = cap_pos + 1
    /\ UNCHANGED <<cap_images, cap_tiles, cap_status, cap_body, cap_clicked,
                   cap_pc, cap_ret>>
    /\ UNCHANGED cap_frame

\* lines 572-573
ClicksDone ==
    /\ cap_pc = "answered"
    /\ cap_status = 200
    /\ cap_body.kind = "indices"
    /\ cap_pos = Len(cap_body.indices)
    /\ cap_ret' = clicks_result(cap_body.indices, cap_clicked)
    /\ cap_pc' = "returned"
    /\ UNCHANGED <<cap_images, cap_tiles, cap_status, cap_body, cap_pos,
                   cap_clicked>>
    /\ UNCHANGED cap_frame

NextCaptcha ==
    \/ NoImages
    \/ SomeImages
    \/ CollectTile
    \/ SkipImage
    \/ NoTiles
    \/ PostAnswered
    \/ PostRaises
    \/ StatusNotOk
    \/ BodyRaises
    \/ ClickImage
    \/ ClickRaises
    \/ IndexOutOfRange
    \/ ClicksDone

SpecCaptcha == InitCaptcha /\ [][NextCaptcha]_vars

CaptchaReturned == cap_pc = "returned"

\* the API answered with indices of the submitted tile list
AnsweredForTileList ==
    /\ cap_status = 200
    /\ cap_body.kind = "indices"
    /\ \A k \in 1..Len(cap_body.indices) :
           cap_body.indices[k] < Len(cap_tiles)

\* the positions in unique_images of the tiles the OCR judged matching
JudgedMatching ==
    {cap_tiles[cap_body.indices[k] + 1].index :
        k \in 1..Len(cap_body.indices)}

\* C25: when the API answers with matching indices of the submitted tile
\* list, every image clicked is the image of a tile judged matching.
C25_ClickedImagesAreJudgedMatching ==
    (CaptchaReturned /\ AnsweredForTileList)
        => ElementsOf(cap_clicked) \subseteq JudgedMatching

\* C27 as stated: True whenever a tile was collected and the API answered
\* with status 200; False without image, without tile, or with another
\* status.
C27_TrueIffTilesAndStatusOk ==
    CaptchaReturned =>
        /\ (cap_tiles # <<>> /\ cap_status = 200) => cap_ret = TRUE
        /\ (cap_images = <<>> \/ cap_tiles = <<>> \/ cap_status # 200)
               => cap_ret = FALSE

\* C27, amended: True whenever a tile was collected and the API answered
\* with status 200 and a body holding a list of integers, whatever the
\* indices and the clicks; False without image, without tile, without an
\* answer, with another status, or with a body of another form.
C27_TrueIffTilesAndWellFormedAnswer ==
    CaptchaReturned =>
        /\ (/\ cap_tiles # <<>>
            /\ cap_status = 200
            /\ cap_body.kind = "indices") => cap_ret = TRUE
        /\ (cap_images = <<>> \/ cap_tiles = <<>> \/ cap_status # 200)
               => cap_ret = FALSE
        /\ (cap_status = 200 /\ cap_body.kind = "malformed")
               => cap_ret = FALSE

\* True although an index was out of range and no click succeeded
C27_Witness ==
    /\ CaptchaReturned
    /\ cap_ret = TRUE
    /\ Len(cap_body.indices) = 2
    /\ cap_body.indices[1] >= Len(cap_images)
    /\ cap_clicked = <<>>

----------------------------------------------------------------------------
\* C26: in the dict of the normal path processed_tiles is at most
\* total_tiles, the number of submitted tiles; when the fallback did not
\* fire, the indices are distinct positions of tiles that had image data,
\* each of which was counted in processed_tiles, so that there are at most
\* processed_tiles of them.  The dict of the exception handler counts no
\* tile and holds no index.
C26_CountsAreConsistent ==
    /\ ReturnedNormally =>
           /\ result.total_tiles = Len(Val(tiles))
           /\ result.processed_tiles <= result.total_tiles
           /\ ~fallback_fired =>
                  /\ ElementsOf(result.matching_indices) \subseteq WithImageData
                  /\ NoDuplicates(result.matching_indices)
                  /\ result.processed_tiles = Cardinality(WithImageData)
                  /\ Len(result.matching_indices) <= result.processed_tiles
    /\ ReturnedFromHandler =>
           /\ result.processed_tiles = 0
           /\ result.matching_indices = <<>>

\* a batch with a tile without image data, a processed tile that does not
\* match and one that does
C26_Witness ==
    /\ ReturnedNormally
    /\ ~fallback_fired
    /\ result.matching_indices # <<>>
    /\ Len(result.matching_indices) < result.processed_tiles
    /\ result.processed_tiles < result.total_tiles

----------------------------------------------------------------------------
\* cleanup (enhanced_bls_automation.py lines 1043-1063).  A handle is None
\* or an open object; cl_raising holds the objects whose close (or stop)
\* raises when it is called.

Handle == <<"open">>

\* init_stealth_browser creates the browser, then the context, then the
\* page (lines 140, 153, 259); cleanup clears them in the opposite order
HandleStates ==
    {<<None, None, None>>,
     <<None, None, Handle>>,
     <<None, Handle, Handle>>,
     <<Handle, Handle, Handle>>}

Closables == {"page", "context", "browser", "playwright"}

cl_frame ==
    <<auto_core, rec_vars, pre_vars, fc_vars, cap_vars, login_vars, alt_vars>>

InitCleanup ==
    /\ \E h \in HandleStates :
           /\ cl_page = h[1]
           /\ cl_context = h[2]
           /\ cl_browser = h[3]
    /\ cl_raising \in SUBSET Closables
    /\ cl_pc = "page"
    /\ AutoCoreIdle
    /\ RecognizerIdle /\ PreprocessIdle /\ FullCheckIdle /\ CaptchaIdle
    /\ LoginIdle /\ RearrangeIdle

\* lines 1048-1050
ClosePage ==
    /\ cl_pc = "page"
    /\ cl_page # None
    /\ "page" \notin cl_raising
    /\ cl_page' = None
    /\ cl_pc' = "context"
    /\ UNCHANGED <<cl_context, cl_browser, cl_raising>>
    /\ UNCHANGED cl_frame

\* line 1048, condition false
NoPage ==
    /\ cl_pc = "page"
    /\ cl_page = None
    /\ cl_pc' = "context"
    /\ UNCHANGED <<cl_page, cl_context, cl_browser, cl_raising>>
    /\ UNCHANGED cl_frame

\* line 1049 raises: the handler of lines 1062-1063
ClosePageRaises ==
    /\ cl_pc = "page"
    /\ cl_page # None
    /\ "page" \in cl_raising
    /\ cl_pc' = "done"
    /\ UNCHANGED <<cl_page, cl_context, cl_browser, cl_raising>>
    /\ UNCHANGED cl_frame

\* lines 1051-1053
CloseContext ==
    /\ cl_pc = "context"
    /\ cl_context # None
    /\ "context" \notin cl_raising
    /\ cl_context' = None
    /\ cl_pc' = "browser"
    /\ UNCHANGED <<cl_page, cl_browser, cl_raising>>
    /\ UNCHANGED cl_frame

\* line 1051, condition false
NoContext ==
    /\ cl_pc = "context"
    /\ cl_context = None
    /\ cl_pc' = "browser"
    /\ UNCHANGED <<cl_page, cl_context, cl_browser, cl_raising>>
    /\ UNCHANGED cl_frame

\* line 1052 raises: the handler of lines 1062-1063
CloseContextRaises ==
    /\ cl_pc = "context"
    /\ cl_context # None
    /\ "context" \in cl_raising
    /\ cl_pc' = "done"
    /\ UNCHANGED <<cl_page, cl_context, cl_browser, cl_raising>>
    /\ UNCHANGED cl_frame

\* lines 1054-1056
CloseBrowser ==
    /\ cl_pc = "browser"
    /\ cl_browser # None
    /\ "browser" \notin cl_raising
    /\ cl_browser' = None
    /\ cl_pc' = "playwright"
    /\ UNCHANGED <<cl_page, cl_context, cl_raising>>
    /\ UNCHANGED cl_frame

\* line 1054, condition false
NoBrowser ==
    /\ cl_pc = "browser"
    /\ cl_browser = None
    /\ cl_pc' = "playwright"
    /\ UNCHANGED <<cl_page, cl_context, cl_browser, cl_raising>>
    /\ UNCHANGED cl_frame

\* line 1055 raises: the handler of lines 1062-1063
CloseBrowserRaises ==
    /\ cl_pc = "browser"
    /\ cl_browser # None
    /\ "browser" \in cl_raising
    /\ cl_pc' = "done"
    /\ UNCHANGED <<cl_page, cl_context, cl_browser, cl_raising>>
    /\ UNCHANGED cl_frame

\* lines 1057-1060
StopPlaywright ==
    /\ cl_pc = "playwright"
    /\ "playwright" \notin cl_raising
    /\ cl_pc' = "done"
    /\ UNCHANGED <<cl_page, cl_context, cl_browser, cl_raising>>
    /\ UNCHANGED cl_frame

\* line 1058 raises: the handler of lines 1062-1063
StopPlaywrightRaises ==
    /\ cl_pc = "playwright"
    /\ "playwright" \in cl_raising
    /\ cl_pc' = "done"
    /\ UNCHANGED <<cl_page, cl_context, cl_browser, cl_raising>>
    /\ UNCHANGED cl_frame

NextCleanup ==
    \/ ClosePage
    \/ NoPage
    \/ ClosePageRaises
    \/ CloseContext
    \/ NoContext
    \/ CloseContextRaises
    \/ CloseBrowser
    \/ NoBrowser
    \/ CloseBrowserRaises
    \/ StopPlaywright
    \/ StopPlaywrightRaises

SpecCleanup == InitCleanup /\ [][NextCleanup]_vars

CleanupReturned == cl_pc = "done"

\* C28: after cleanup has returned the page, the context and the browser
\* are None, whatever they were and whichever close call raised.
C28_AllHandlesNoneAfterCleanup ==
    CleanupReturned =>
        /\ cl_page = None
        /\ cl_context = None
        /\ cl_browser = None

----------------------------------------------------------------------------
\* enhanced_step1_login (enhanced_bls_automation.py lines 608-693).
\* login_events is the history of the calls made on the browser;
\* discover_dynamic_elements, find_active_form_field and human_like_typing
\* catch their own exceptions (lines 376-378, 426-428, 604-606).

max_retries == 3

\* "if attempt == max_retries - 1", line 626
last_attempt_never(attempt) == FALSE

last_attempt(attempt) == attempt = max_retries - 1

\* line 658
submit_selectors ==
    <<"#btnVerify", "input[type=submit]", "button[type=submit]",
      ".btn-verify">>

CountOf(events, names) ==
    Cardinality({k \in 1..Len(events) : events[k] \in names})

\* the selectors the submit loop has gone through
Queried == CountOf(login_events, {"query"})

login_frame ==
    <<auto_core, rec_vars, pre_vars, fc_vars, cap_vars, cl_vars, alt_vars>>

InitLogin ==
    /\ login_pc = "start"
    /\ login_attempt = 0
    /\ login_events = <<>>
    /\ login_ret = None
    /\ AutoCoreIdle
    /\ RecognizerIdle /\ PreprocessIdle /\ FullCheckIdle /\ CaptchaIdle
    /\ CleanupIdle /\ RearrangeIdle

\* line 613, condition false
BrowserReady ==
    /\ login_pc = "start"
    /\ login_pc' = "navigate"
    /\ UNCHANGED <<login_attempt, login_events, login_ret>>
    /\ UNCHANGED login_frame

\* lines 613-614, init_stealth_browser returns True
BrowserInitialised ==
    /\ login_pc = "start"
    /\ login_events' = Append(login_events, "init")
    /\ login_pc' = "navigate"
    /\ UNCHANGED <<login_attempt, login_ret>>
    /\ UNCHANGED login_frame

\* lines 613-615, init_stealth_browser returns False
BrowserInitFails ==
    /\ login_pc = "start"
    /\ login_events' = Append(login_events, "init")
    /\ login_ret' = FALSE
    /\ login_pc' = "returned"
    /\ UNCHANGED login_attempt
    /\ UNCHANGED login_frame

\* lines 621-624: page.goto returns, break
GotoSucceeds ==
    /\ login_pc = "navigate"
    /\ login_attempt < max_retries
    /\ login_events' = Append(login_events, "goto_ok")
    /\ login_pc' = "loaded"
    /\ UNCHANGED <<login_attempt, login_ret>>
    /\ UNCHANGED login_frame

\* lines 625-629: page.goto raises; on the last attempt the exception is
\* raised again and reaches the handler of lines 690-693
GotoRaises ==
    /\ login_pc = "navigate"
    /\ login_attempt < max_retries
    /\ login_events' = Append(login_events, "goto_failed")
    /\ IF last_attempt(login_attempt)
       THEN /\ login_ret' = FALSE
            /\ login_pc' = "returned"
            /\ UNCHANGED login_attempt
       ELSE /\ login_attempt' = login_attempt + 1
            /\ login_pc' = IF login_attempt + 1 < max_retries
                           THEN "navigate" ELSE "loaded"
            /\ UNCHANGED login_ret
    /\ UNCHANGED login_frame

\* lines 631-635
Discover ==
    /\ login_pc = "loaded"
    /\ login_events' = Append(login_events, "discover")
    /\ login_pc' = "find"
    /\ UNCHANGED <<login_attempt, login_ret>>
    /\ UNCHANGED login_frame

\* lines 638-645, a field is found
EmailFieldFound ==
    /\ login_pc = "find"
    /\ login_events' = Append(login_events, "find")
    /\ login_pc' = "type"
    /\ UNCHANGED <<login_attempt, login_ret>>
    /\ UNCHANGED login_frame

\* lines 639-643, find_active_form_field returns None
EmailFieldMissing ==
    /\ login_pc = "find"
    /\ login_events' = Append(login_events, "find")
    /\ login_ret' = FALSE
    /\ login_pc' = "returned"
    /\ UNCHANGED login_attempt
    /\ UNCHANGED login_frame

\* lines 648-653, human_like_typing returns True
EmailTyped ==
    /\ login_pc = "type"
    /\ login_events' = Append(login_events, "type")
    /\ login_pc' = "submit"
    /\ UNCHANGED <<login_attempt, login_ret>>
    /\ UNCHANGED login_frame

\* lines 648-653, human_like_typing returns False and page.fill returns
EmailFilled ==
    /\ login_pc = "type"
    /\ login_events' = login_events \o <<"type", "fill">>
    /\ login_pc' = "submit"
    /\ UNCHANGED <<login_attempt, login_ret>>
    /\ UNCHANGED login_frame

\* line 651 raises: the handler of lines 690-693
FillRaises ==
    /\ login_pc = "type"
    /\ login_events' = login_events \o <<"type", "fill">>
    /\ login_ret' = FALSE
    /\ login_pc' = "returned"
    /\ UNCHANGED login_attempt
    /\ UNCHANGED login_frame

\* lines 661-667: the button of the selector is visible and clicked
SubmitClicked ==
    /\ login_pc = "submit"
    /\ Queried < Len(submit_selectors)
    /\ login_events' = login_events \o <<"query", "click">>
    /\ login_pc' = "wait"
    /\ UNCHANGED <<login_attempt, login_ret>>
    /\ UNCHANGED login_frame

\* lines 663-669: no visible button for the selector, or a call raises
SubmitSelectorFails ==
    /\ login_pc = "submit"
    /\ Queried < Len(submit_selectors)
    /\ login_events' = Append(login_events, "query")
    /\ UNCHANGED <<login_attempt, login_pc, login_ret>>
    /\ UNCHANGED login_frame

\* lines 671-673
NotSubmitted ==
    /\ login_pc = "submit"
    /\ Queried = Len(submit_selectors)
    /\ login_ret' = FALSE
    /\ login_pc' = "returned"
    /\ UNCHANGED <<login_attempt, login_events>>
    /\ UNCHANGED login_frame

\* lines 675-688: True for either kind of URL
StepOneReturnsTrue ==
    /\ login_pc = "wait"
    /\ login_ret' = TRUE
    /\ login_pc' = "returned"
    /\ UNCHANGED <<login_attempt, login_events>>
    /\ UNCHANGED login_frame

\* line 676 raises: the handler of lines 690-693
WaitRaises ==
    /\ login_pc = "wait"
    /\ login_ret' = FALSE
    /\ login_pc' = "returned"
    /\ UNCHANGED <<login_attempt, login_events>>
    /\ UNCHANGED login_frame

NextLogin ==
    \/ BrowserReady
    \/ BrowserInitialised
    \/ BrowserInitFails
    \/ GotoSucceeds
    \/ GotoRaises
    \/ Discover
    \/ EmailFieldFound
    \/ EmailFieldMissing
    \/ EmailTyped
    \/ EmailFilled
    \/ FillRaises
    \/ SubmitClicked
    \/ SubmitSelectorFails
    \/ NotSubmitted
    \/ StepOneReturnsTrue
    \/ WaitRaises

SpecLogin == InitLogin /\ [][NextLogin]_vars

Navigations == CountOf(login_events, {"goto_ok", "goto_failed"})

FailedNavigations == CountOf(login_events, {"goto_failed"})

\* no call on the page follows a navigation that succeeded, other than the
\* steps after the loop
NoNavigationAfterSuccess ==
    \A i, j \in 1..Len(login_events) :
        (i < j /\ login_events[i] = "goto_ok")
            => login_events[j] \notin {"goto_ok", "goto_failed"}

FormTouched ==
    CountOf(login_events,
            {"discover", "find", "type", "fill", "query", "click"}) > 0

\* C29: the login page is navigated to at most 3 times and never again
\* after a navigation that succeeded; after 3 failed navigations step 1 has
\* returned False and has neither discovered elements, nor filled the email
\* field, nor submitted the form.
C29_AtMostThreeNavigations ==
    /\ Navigations <= 3
    /\ NoNavigationAfterSuccess
    /\ FailedNavigations = 3 =>
           /\ login_pc = "returned"
           /\ login_ret = FALSE
           /\ ~FormTouched
    /\ FormTouched => CountOf(login_events, {"goto_ok"}) = 1

C29_Witness ==
    /\ login_pc = "returned"
    /\ FailedNavigations = 3
    /\ login_ret = FALSE

----------------------------------------------------------------------------
\* Calls of consolidate_results on rearrangements of one list of
\* detections: alt_first is the verdict on the list first given, alt_ret the
\* value returned for the list at hand.

RearrangeTargets == ConsolidateTargets \cup {None}

\* the lists first given leave room for one duplicated detection
RearrangeLists == {l \in ConsolidateLists : Len(l) < MaxDetections}

\* consolidate_results returns a non-empty list
Verdict(all_results, tgt) ==
    LET c == consolidate_results(all_results, tgt)
    IN  ~c.raised /\ c.matches # <<>>

\* all_results with the entries at positions i and j exchanged
Exchange(all_results, i, j) ==
    [k \in 1..Len(all_results) |->
        IF k = i THEN all_results[j]
        ELSE IF k = j THEN all_results[i]
        ELSE all_results[k]]

\* all_results with the confidence at position i replaced
Reweigh(all_results, i, confidence) ==
    [all_results EXCEPT ![i] = <<all_results[i][1], confidence>>]

alt_frame ==
    <<auto_core, rec_vars, pre_vars, fc_vars, cap_vars, cl_vars, login_vars>>

InitRearrange ==
    /\ alt_results \in RearrangeLists
    /\ alt_target \in RearrangeTargets
    /\ alt_first = FALSE
    /\ alt_ret = <<>>
    /\ alt_pc = "call"
    /\ AutoCoreIdle
    /\ RecognizerIdle /\ PreprocessIdle /\ FullCheckIdle /\ CaptchaIdle
    /\ CleanupIdle /\ LoginIdle

\* consolidate_results on the list first given
FirstCall ==
    /\ alt_pc = "call"
    /\ alt_first' = Verdict(alt_results, alt_target)
    /\ alt_ret' = consolidate_results(alt_results, alt_target).matches
    /\ alt_pc' = "compare"
    /\ UNCHANGED <<alt_results, alt_target>>
    /\ UNCHANGED alt_frame

\* consolidate_results on the list with two detections exchanged
CallPermuted ==
    /\ alt_pc = "compare"
    /\ \E i, j \in 1..Len(alt_results) :
           /\ i < j
           /\ alt_results' = Exchange(alt_results, i, j)
    /\ alt_ret' = consolidate_results(alt_results', alt_target).matches
    /\ UNCHANGED <<alt_target, alt_first, alt_pc>>
    /\ UNCHANGED alt_frame

\* consolidate_results on the list with one detection given twice
CallDuplicated ==
    /\ alt_pc = "compare"
    /\ Len(alt_results) < MaxDetections
    /\ \E i \in 1..Len(alt_results) :
           alt_results' = Append(alt_results, alt_results[i])
    /\ alt_ret' = consolidate_results(alt_results', alt_target).matches
    /\ UNCHANGED <<alt_target, alt_first, alt_pc>>
    /\ UNCHANGED alt_frame

\* consolidate_results on the list with one confidence changed
CallReweighed ==
    /\ alt_pc = "compare"
    /\ \E i \in 1..Len(alt_results) :
           \E confidence \in ConsolidateConfidences :
               /\ confidence # alt_results[i][2]
               /\ alt_results' = Reweigh(alt_results, i, confidence)
    /\ alt_ret' = consolidate_results(alt_results', alt_target).matches
    /\ UNCHANGED <<alt_target, alt_first, alt_pc>>
    /\ UNCHANGED alt_frame

NextRearrange ==
    \/ FirstCall
    \/ CallPermuted
    \/ CallDuplicated
    \/ CallReweighed

SpecRearrange == InitRearrange /\ [][NextRearrange]_vars

\* some detected text passes the exact rules or the fuzzy rule
SomeTextPasses(all_results, tgt) ==
    FirstPassTexts(all_results, tgt) \cup FuzzyPassTexts(all_results, tgt) # {}

\* C30: the verdict of consolidate_results (a non-empty list is returned)
\* is the same for a list of detections and for every list obtained from it
\* by exchanging detections, duplicating a detection and changing
\* confidences; with a target it is decided by the set of detected texts.
C30_VerdictDependsOnTextsOnly ==
    alt_pc = "compare" =>
        /\ (alt_ret # <<>>) = alt_first
        /\ alt_target # None =>
               alt_first = SomeTextPasses(alt_results, alt_target)

\* a list of full length, so one with a duplicated detection, whose only
\* text that passes (the fuzzy rule) was given twice and reweighed
C30_Witness ==
    /\ alt_pc = "compare"
    /\ alt_first
    /\ Len(alt_results) = 3
    /\ alt_results[1] = <<Text11112, 60>>
    /\ alt_results[2] = <<Text22222, 90>>
    /\ alt_results[3] = <<Text11112, 90>>
    /\ alt_target = Some(Text11111)

====
